---- MODULE Spec2Model ----
(***************************************************************************)
(* Unified calendar for department event sheets: the reconciliation engine *)
(* (syncToGoogleCalendar), its tracking store, the external calendar, the  *)
(* error sheet and the debounce scheduler built on project triggers.       *)
(*                                                                         *)
(* One department sheet is modelled; its rows carry a title and the raw    *)
(* "Sur site CCFHK?" cell.  Start date, end date and service are the same  *)
(* for every row, so the content hash is decided by title and flag.        *)
(* MD5 is modelled as a collision-free digest: the hash of an event is the *)
(* string that computeEventHash feeds to the digest.                       *)
(***************************************************************************)
EXTENDS Integers, Sequences, FiniteSets, TLC

VARIABLES
    sheetRows,      \* data rows of the department sheet (below the header)
    calSheetExists, \* whether the sheet 'Calendrier Unifie' exists
    rendered,       \* titles written on the calendar sheet by the last render
    errorSheet,     \* rows of the error sheet 'Erreurs' (below the header)
    tracking,       \* rows of '_CalendarSync': eventHash -> tracking entry
    gcal,           \* live events of the external Google Calendar
    triggers,       \* ScriptApp.getProjectTriggers(), in creation order
    pc,             \* position of the executeDebouncedSync invocation
    lastRun,        \* history: the syncToGoogleCalendar call that just ended
    settled,        \* history: how the last run ended, if no edit followed
    unsynced,       \* history: a department edit no run has read yet
    sinceEdit,      \* history: seconds since the last department edit (capped)
    burstRuns,      \* history: debounced runs started since the burst began
    burstEdits,     \* history: edits of the current burst (2 stands for more)
    fnCall          \* a call of one of the pure functions: arguments, result

\* The workbook, the external calendar, the triggers and their history.
sysVars == <<sheetRows, calSheetExists, rendered, errorSheet, tracking, gcal,
             triggers, pc, lastRun, settled, unsynced, sinceEdit, burstRuns,
             burstEdits>>

vars == <<sysVars, fnCall>>

(***************************************************************************)
(* Bounds of the model.                                                    *)
(***************************************************************************)
MaxRows == 2
MaxIds == 2
TickSeconds == 15

(***************************************************************************)
(* CONFIG.                                                                 *)
(***************************************************************************)
syncDebounceSeconds == 30

Titles == {"Gala", "Expo"}
SurSiteValues == {"Oui", "Non", ""}
RowValues == [event : Titles, surSite : SurSiteValues]

departmentName == "Musique"
serviceName == "Culture"

(***************************************************************************)
(* Generic helpers.                                                        *)
(***************************************************************************)
Range(s) == {s[i] : i \in DOMAIN s}

RemoveAt(s, i) == SubSeq(s, 1, i - 1) \o SubSeq(s, i + 1, Len(s))

MapSet(m, k, v) == [x \in DOMAIN m \cup {k} |-> IF x = k THEN v ELSE m[x]]

Min(S) == CHOOSE x \in S : \A y \in S : x <= y

EmptyMap == [h \in {} |-> 0]

(***************************************************************************)
(* Date.  A Date is its time value in seconds since 1970-01-01T00:00:00Z   *)
(* (milliseconds are always 0 in the model) and the script's time zone is  *)
(* taken to be UTC, so local fields and ISO fields agree.  NewDate is      *)
(* new Date(year, monthIndex, day, hours, minutes, seconds): monthIndex is *)
(* 0-based and, like day, may lie outside its range (day 0 is the last day *)
(* of the previous month).  NoDate is null.                                *)
(***************************************************************************)
NoDate == -1

IsLeapYear(y) == (y % 4 = 0 /\ y % 100 # 0) \/ y % 400 = 0

DaysInMonth(y, monthIndex) ==
    CASE monthIndex \in {0, 2, 4, 6, 7, 9, 11} -> 31
      [] monthIndex \in {3, 5, 8, 10} -> 30
      [] OTHER -> IF IsLeapYear(y) THEN 29 ELSE 28

LeapDaysBefore(y) == ((y - 1) \div 4) - ((y - 1) \div 100) + ((y - 1) \div 400)

DaysBeforeYear(y) == 365 * (y - 1970) + LeapDaysBefore(y) - LeapDaysBefore(1970)

RECURSIVE DaysBeforeMonth(_, _)
DaysBeforeMonth(y, monthIndex) ==
    IF monthIndex = 0 THEN 0
    ELSE DaysBeforeMonth(y, monthIndex - 1) + DaysInMonth(y, monthIndex - 1)

NewDate(year, monthIndex, day, hours, minutes, seconds) ==
    LET y == year + (monthIndex \div 12)
        m == monthIndex % 12
    IN  (DaysBeforeYear(y) + DaysBeforeMonth(y, m) + day - 1) * 86400
          + hours * 3600 + minutes * 60 + seconds

RECURSIVE YearFrom(_, _)
YearFrom(y, days) ==
    IF DaysBeforeYear(y + 1) <= days THEN YearFrom(y + 1, days) ELSE y

RECURSIVE MonthFrom(_, _, _)
MonthFrom(y, monthIndex, dayOfYear) ==
    IF DaysBeforeMonth(y, monthIndex + 1) <= dayOfYear
    THEN MonthFrom(y, monthIndex + 1, dayOfYear)
    ELSE monthIndex

getFullYear(date) == YearFrom(1970 + ((date \div 86400) \div 366), date \div 86400)

getMonth(date) ==
    LET y == getFullYear(date)
    IN  MonthFrom(y, 0, (date \div 86400) - DaysBeforeYear(y))

getDate(date) ==
    LET y == getFullYear(date)
    IN  (date \div 86400) - DaysBeforeYear(y) - DaysBeforeMonth(y, getMonth(date)) + 1

\* 0 is Sunday; 1970-01-01 was a Thursday.
getDay(date) == ((date \div 86400) + 4) % 7

getHours(date) == (date % 86400) \div 3600

getMinutes(date) == (date % 3600) \div 60

getSeconds(date) == date % 60

Pad2(n) == IF n < 10 THEN "0" \o ToString(n) ELSE ToString(n)

(***************************************************************************)
(* Event normalizer.                                                       *)
(***************************************************************************)
\* String.prototype.toLowerCase and trim, on the texts a flag cell holds in
\* the model.
Lower(value) ==
    CASE value = "Oui" -> "oui"
      [] value = "OUI" -> "oui"
      [] value = " Oui " -> " oui "
      [] value = "Non" -> "non"
      [] value = "NON" -> "non"
      [] value = " Non" -> " non"
      [] value = "X" -> "x"
      [] value = "Yes" -> "yes"
      [] value = "TRUE" -> "true"
      [] value = "A voir" -> "a voir"
      [] value = "Septembre" -> "septembre"
      [] value = "Tout" -> "tout"
      [] value = "Actuel + A venir" -> "actuel + a venir"
      [] OTHER -> value

Trim(value) ==
    CASE value = " oui " -> "oui"
      [] value = " non" -> "non"
      [] value = " Oui " -> "Oui"
      [] value = " Non" -> "Non"
      [] value = "  " -> ""
      [] OTHER -> value

toBooleanFilter(value) ==
    IF value = "" THEN FALSE
    ELSE LET str == Trim(Lower(value))
         IN  str \in {"oui", "yes", "true", "1", "x"}

(***************************************************************************)
(* Department glyphs and the prefix of an event on the calendar.  The      *)
(* glyphs are written as ASCII names.                                      *)
(***************************************************************************)
departmentEmojis == <<"(red)", "(yellow)", "(green)", "(blue)", "(purple)">>

\* getDepartmentNames().sort() of the workbook of the model.
sortedDepartments == <<"Catechese", "Jeunesse", "Musique", "Sport">>

buildEmojiMap ==
    [dept \in Range(sortedDepartments) |->
        LET index == CHOOSE i \in DOMAIN sortedDepartments :
                         sortedDepartments[i] = dept
        IN  departmentEmojis[((index - 1) % Len(departmentEmojis)) + 1]]

getDepartmentEmoji(department, emojiMap) ==
    IF department \in DOMAIN emojiMap THEN emojiMap[department] ELSE "(white)"

\* A prefix that does not look at the raw cell.
getCalendarStatusPrefix_NoRaw(event, deptEmoji) ==
    IF event.surCalendrierExcel THEN deptEmoji ELSE "(?)" \o deptEmoji

getCalendarStatusPrefix(event, deptEmoji) ==
    IF event.surCalendrierExcel THEN deptEmoji
    ELSE IF event.surCalendrierExcelRaw = "" THEN "(?)" \o deptEmoji
    ELSE "(hidden)" \o deptEmoji

RECURSIVE SortByStart(_)
SortByStart(events) ==
    IF Len(events) <= 1 THEN events
    ELSE LET rest == SortByStart(Tail(events))
             e == Head(events)
             k == Cardinality({i \in 1..Len(rest) : rest[i].startDate < e.startDate})
         IN  SubSeq(rest, 1, k) \o <<e>> \o SubSeq(rest, k + 1, Len(rest))

\* The date cell of every row of the department sheet: 1 September 2025,
\* that is NewDate(2025, 8, 1, 0, 0, 0).
rowDate == 1756684800

getAllEvents(rows) ==
    SortByStart([i \in 1..Len(rows) |->
        [department |-> departmentName,
         startDate |-> rowDate,
         endDate |-> NoDate,
         service |-> serviceName,
         event |-> rows[i].event,
         rowIndex |-> i + 1,
         surSiteCCFHK |-> toBooleanFilter(rows[i].surSite)]])

(***************************************************************************)
(* Special days.  A 'yyyy-MM-dd' string is written as the number yyyyMMdd, *)
(* which orders as the strings do.                                         *)
(***************************************************************************)
formatDateKey(date) ==
    getFullYear(date) * 10000 + (getMonth(date) + 1) * 100 + getDate(date)

schoolHolidays ==
    "2024-2025" :> <<[name |-> "Vacances ete", start |-> 20240628, end |-> 20240827],
                   [name |-> "Vacances d'octobre", start |-> 20241025, end |-> 20241101],
                   [name |-> "Vacances d'hiver", start |-> 20241223, end |-> 20250105],
                   [name |-> "Vacances Nouvel An chinois", start |-> 20250129, end |-> 20250202],
                   [name |-> "Vacances de Paques", start |-> 20250414, end |-> 20250427],
                   [name |-> "Vacances de printemps", start |-> 20250526, end |-> 20250529],
                   [name |-> "Vacances ete", start |-> 20250627, end |-> 20250827]>>
      @@ "2025-2026" :> <<[name |-> "Vacances ete", start |-> 20250627, end |-> 20250827],
                   [name |-> "Vacances d'octobre", start |-> 20251024, end |-> 20251031],
                   [name |-> "Vacances d'hiver", start |-> 20251222, end |-> 20260102],
                   [name |-> "Vacances Nouvel An chinois", start |-> 20260216, end |-> 20260220],
                   [name |-> "Vacances de Paques", start |-> 20260330, end |-> 20260410],
                   [name |-> "Vacances de printemps", start |-> 20260526, end |-> 20260529],
                   [name |-> "Vacances ete", start |-> 20260627, end |-> 20260827]>>

publicHolidays ==
    "2024-2025" :> <<[date |-> 20240918, name |-> "Apres Mi-automne"],
                   [date |-> 20241001, name |-> "Fete nationale"],
                   [date |-> 20241011, name |-> "Chung Yeung"],
                   [date |-> 20241225, name |-> "Noel"],
                   [date |-> 20241226, name |-> "Boxing Day"],
                   [date |-> 20250101, name |-> "Jour de l'an"],
                   [date |-> 20250129, name |-> "Nouvel An chinois"],
                   [date |-> 20250130, name |-> "2e jour Nouvel An chinois"],
                   [date |-> 20250131, name |-> "3e jour Nouvel An chinois"],
                   [date |-> 20250404, name |-> "Ching Ming"],
                   [date |-> 20250418, name |-> "Vendredi saint"],
                   [date |-> 20250419, name |-> "Apres Vendredi saint"],
                   [date |-> 20250421, name |-> "Lundi Paques"],
                   [date |-> 20250501, name |-> "Fete travail"],
                   [date |-> 20250505, name |-> "Bouddha"],
                   [date |-> 20250531, name |-> "Tuen Ng"],
                   [date |-> 20250701, name |-> "Fete SAR HK"]>>
      @@ "2025-2026" :> <<[date |-> 20250701, name |-> "Fete SAR HK"],
                   [date |-> 20251001, name |-> "Fete nationale"],
                   [date |-> 20251007, name |-> "Apres Mi-automne"],
                   [date |-> 20251029, name |-> "Chung Yeung"],
                   [date |-> 20251225, name |-> "Noel"],
                   [date |-> 20251226, name |-> "Boxing Day"],
                   [date |-> 20260101, name |-> "Jour de l'an"],
                   [date |-> 20260217, name |-> "Nouvel An chinois"],
                   [date |-> 20260218, name |-> "2e jour Nouvel An chinois"],
                   [date |-> 20260219, name |-> "3e jour Nouvel An chinois"],
                   [date |-> 20260403, name |-> "Vendredi saint"],
                   [date |-> 20260404, name |-> "Apres Vendredi saint"],
                   [date |-> 20260406, name |-> "Apres Ching Ming"],
                   [date |-> 20260407, name |-> "Apres Lundi Paques"],
                   [date |-> 20260501, name |-> "Fete travail"],
                   [date |-> 20260525, name |-> "Bouddha"],
                   [date |-> 20260619, name |-> "Tuen Ng"],
                   [date |-> 20260701, name |-> "Fete SAR HK"]>>

colors ==
    [saturday |-> "#E3F2FD", sunday |-> "#FFE0B2",
     schoolHoliday |-> "#E1BEE7", publicHoliday |-> "#FFCDD2"]

todayColor == "#BBDEFB"

\* null, for a holiday name.
NoHoliday == ""

getCurrentAcademicYear(yearFilter) ==
    IF yearFilter = "" THEN "2025-2026" ELSE yearFilter

getSchoolHoliday(date, academicYear) ==
    IF academicYear \notin DOMAIN schoolHolidays THEN NoHoliday
    ELSE LET dateStr == formatDateKey(date)
             hits == SelectSeq(schoolHolidays[academicYear],
                               LAMBDA period : dateStr >= period.start
                                                 /\ dateStr <= period.end)
         IN  IF hits = << >> THEN NoHoliday ELSE Head(hits).name

getPublicHoliday(date, academicYear) ==
    IF academicYear \notin DOMAIN publicHolidays THEN NoHoliday
    ELSE LET dateStr == formatDateKey(date)
             hits == SelectSeq(publicHolidays[academicYear],
                               LAMBDA holiday : holiday.date = dateStr)
         IN  IF hits = << >> THEN NoHoliday ELSE Head(hits).name

(***************************************************************************)
(* Grid builder.  A display is the sequence of the lines of a cell.  today *)
(* is new Date() and yearFilter the value of cell B1 at the time of the    *)
(* render.                                                                 *)
(***************************************************************************)
maxEventsPerDay == 8

\* dayNumber: null.
NoDay == 0

BlankCell ==
    [display |-> << >>, events |-> << >>, dayNumber |-> NoDay, isToday |-> FALSE]

formatTimeForDisplay(date) == Pad2(getHours(date)) \o ":" \o Pad2(getMinutes(date))

EventLine(event, emojiMap) ==
    LET prefix == getCalendarStatusPrefix(event,
                      getDepartmentEmoji(event.department, emojiMap))
        time == IF event.hasTime
                THEN formatTimeForDisplay(event.startDate) \o " " ELSE ""
        text == IF event.service # "" THEN event.service \o " | " \o event.event
                ELSE event.event
    IN  prefix \o " " \o time \o text

\* A day cell that never writes the overflow line.
formatDayCell_NoOverflow(dayNumber, events, isToday, emojiMap, year, month, yearFilter) ==
    LET date == NewDate(year, month, dayNumber, 0, 0, 0)
        shown == SubSeq(events, 1, IF Len(events) < maxEventsPerDay
                                   THEN Len(events) ELSE maxEventsPerDay)
        lines == [i \in 1..Len(shown) |-> EventLine(shown[i], emojiMap)]
    IN  [display |-> <<ToString(dayNumber)>> \o lines,
         events |-> events,
         dayNumber |-> dayNumber,
         isToday |-> isToday,
         date |-> date,
         schoolHoliday |-> NoHoliday,
         publicHoliday |-> NoHoliday]

formatDayCell(dayNumber, events, isToday, emojiMap, year, month, yearFilter) ==
    LET date == NewDate(year, month, dayNumber, 0, 0, 0)
        currentAcademicYear == getCurrentAcademicYear(yearFilter)
        schoolHoliday == getSchoolHoliday(date, currentAcademicYear)
        publicHoliday == getPublicHoliday(date, currentAcademicYear)
        label == IF publicHoliday # NoHoliday THEN <<"HK PH - " \o publicHoliday>>
                 ELSE IF schoolHoliday # NoHoliday THEN <<"Vacances LFI">>
                 ELSE << >>
        shown == SubSeq(events, 1, IF Len(events) < maxEventsPerDay
                                   THEN Len(events) ELSE maxEventsPerDay)
        lines == [i \in 1..Len(shown) |-> EventLine(shown[i], emojiMap)]
        overflow == IF Len(events) > maxEventsPerDay
                    THEN <<"+ " \o ToString(Len(events) - maxEventsPerDay)
                             \o " autres...">>
                    ELSE << >>
    IN  [display |-> <<ToString(dayNumber)>> \o label \o lines \o overflow,
         events |-> events,
         dayNumber |-> dayNumber,
         isToday |-> isToday,
         date |-> date,
         schoolHoliday |-> schoolHoliday,
         publicHoliday |-> publicHoliday]

\* The inner loop of generateMonthGrid, from column dayOfWeek on.
RECURSIVE FillWeek(_, _, _, _)
FillWeek(acc, week, dayOfWeek, g) ==
    IF dayOfWeek >= 7 THEN acc
    ELSE LET shouldPlaceDay ==
                 \/ week = 0 /\ dayOfWeek >= g.startingDayOfWeek
                 \/ week > 0 /\ acc.currentDay <= g.daysInMonth
         IN  IF shouldPlaceDay /\ acc.currentDay <= g.daysInMonth
             THEN LET date == NewDate(g.year, g.month, acc.currentDay, 0, 0, 0)
                      dateKey == formatDateKey(date)
                      dayEvents == IF dateKey \in DOMAIN g.eventsByDay
                                   THEN g.eventsByDay[dateKey] ELSE << >>
                      isToday == g.isCurrentMonth /\ acc.currentDay = g.todayDate
                      cell == formatDayCell(acc.currentDay, dayEvents, isToday,
                                            g.emojiMap, g.year, g.month,
                                            g.yearFilter)
                  IN  FillWeek([weekRow |-> Append(acc.weekRow, cell),
                                currentDay |-> acc.currentDay + 1],
                               week, dayOfWeek + 1, g)
             ELSE FillWeek([acc EXCEPT !.weekRow = Append(@, BlankCell)],
                           week, dayOfWeek + 1, g)

\* An outer loop that generates up to 5 weeks.
RECURSIVE FillWeeks_FiveWeeks(_, _, _, _)
FillWeeks_FiveWeeks(weeks, week, currentDay, g) ==
    IF week >= 5 THEN weeks
    ELSE LET filled == FillWeek([weekRow |-> << >>, currentDay |-> currentDay],
                                week, 0, g)
         IN  IF filled.currentDay > g.daysInMonth
             THEN Append(weeks, filled.weekRow)
             ELSE FillWeeks_FiveWeeks(Append(weeks, filled.weekRow), week + 1,
                                      filled.currentDay, g)

\* The outer loop of generateMonthGrid, from week on.
RECURSIVE FillWeeks(_, _, _, _)
FillWeeks(weeks, week, currentDay, g) ==
    IF week >= 6 THEN weeks
    ELSE LET filled == FillWeek([weekRow |-> << >>, currentDay |-> currentDay],
                                week, 0, g)
         IN  IF filled.currentDay > g.daysInMonth
             THEN Append(weeks, filled.weekRow)
             ELSE FillWeeks(Append(weeks, filled.weekRow), week + 1,
                            filled.currentDay, g)

generateMonthGrid(year, month, eventsByDay, emojiMap, today, yearFilter) ==
    LET firstDay == NewDate(year, month, 1, 0, 0, 0)
        lastDay == NewDate(year, month + 1, 0, 0, 0, 0)
        jsDayOfWeek == getDay(firstDay)
    IN  FillWeeks(<< >>, 0, 1,
                  [year |-> year,
                   month |-> month,
                   startingDayOfWeek |-> IF jsDayOfWeek = 0 THEN 6
                                         ELSE jsDayOfWeek - 1,
                   daysInMonth |-> getDate(lastDay),
                   isCurrentMonth |-> getFullYear(today) = year
                                        /\ getMonth(today) = month,
                   todayDate |-> getDate(today),
                   eventsByDay |-> eventsByDay,
                   emojiMap |-> emojiMap,
                   yearFilter |-> yearFilter])

(***************************************************************************)
(* applyFormatting: the background of the day cells of a month.  A blank   *)
(* cell is given no background.                                            *)
(***************************************************************************)
NoBackground == "none"

\* A priority pass that tests the weekend before the holidays.
overlayBackground_WeekendFirst(cell, colIndex) ==
    IF colIndex = 5 THEN colors.saturday
    ELSE IF colIndex = 6 THEN colors.sunday
    ELSE IF cell.publicHoliday # NoHoliday THEN colors.publicHoliday
    ELSE IF cell.schoolHoliday # NoHoliday THEN colors.schoolHoliday
    ELSE "#FFFFFF"

\* A priority pass that tests the school break before the public holiday.
overlayBackground_SchoolFirst(cell, colIndex) ==
    IF cell.schoolHoliday # NoHoliday /\ colIndex \notin {5, 6}
    THEN colors.schoolHoliday
    ELSE IF cell.publicHoliday # NoHoliday THEN colors.publicHoliday
    ELSE IF colIndex = 5 THEN colors.saturday
    ELSE IF colIndex = 6 THEN colors.sunday
    ELSE "#FFFFFF"

\* The pass "Apply background colors for weekends and holidays".
overlayBackground(cell, colIndex) ==
    LET isSaturday == colIndex = 5
        isSunday == colIndex = 6
    IN  IF cell.publicHoliday # NoHoliday THEN colors.publicHoliday
        ELSE IF cell.schoolHoliday # NoHoliday /\ ~isSaturday /\ ~isSunday
        THEN colors.schoolHoliday
        ELSE IF isSaturday THEN colors.saturday
        ELSE IF isSunday THEN colors.sunday
        ELSE "#FFFFFF"

\* Backgrounds after the whole of applyFormatting: the today highlight is
\* set after the overlay pass.
applyFormatting(weeks) ==
    [w \in 1..Len(weeks) |->
        [c \in 1..7 |->
            LET cell == weeks[w][c]
            IN  IF cell.dayNumber = NoDay THEN NoBackground
                ELSE IF cell.isToday THEN todayColor
                ELSE overlayBackground(cell, c - 1)]]

(***************************************************************************)
(* Error sheet.                                                            *)
(***************************************************************************)
logError(sheet, type, department, row, description) ==
    Append(sheet, [type |-> type, department |-> department, row |-> row,
                   description |-> description])

\* An error sheet is the sequence of its rows below the header.  A variant
\* that clears the data area and writes nothing back:
clearErrorsByType_ClearAll(sheet, type) == << >>

clearErrorsByType(sheet, type) ==
    LET lastRow == Len(sheet) + 1
    IN  IF lastRow <= 1 THEN sheet
        ELSE LET data == SubSeq(sheet, 1, lastRow - 1)
                 rowsToKeep == SelectSeq(data, LAMBDA row : row.type # type)
                 cleared == << >>
             IN  IF Len(rowsToKeep) > 0 THEN rowsToKeep ELSE cleared

(***************************************************************************)
(* Content hash.                                                           *)
(***************************************************************************)
FormatISO(date) ==
    ToString(getFullYear(date)) \o "-" \o Pad2(getMonth(date) + 1) \o "-"
      \o Pad2(getDate(date)) \o "T" \o Pad2(getHours(date)) \o ":"
      \o Pad2(getMinutes(date)) \o ":" \o Pad2(getSeconds(date)) \o ".000Z"

\* The dates of the events that get hashed, NewDate(2025, 8, 1, 0, 0, 0) and
\* NewDate(2025, 8, 2, 9, 30, 0), with their ISO strings, which are those of
\* FormatISO.
ISOStrings ==
    (1756684800 :> "2025-09-01T00:00:00.000Z")
      @@ (1756805400 :> "2025-09-02T09:30:00.000Z")

HashedDates == DOMAIN ISOStrings

toISOString(date) == ISOStrings[date]

computeEventHash(event) ==
    LET startStr == toISOString(event.startDate)
        endStr == IF event.endDate # NoDate THEN toISOString(event.endDate) ELSE ""
        surSiteStr == IF event.surSiteCCFHK THEN "1" ELSE "0"
    IN  event.department \o "|" \o startStr \o "|" \o endStr \o "|"
          \o event.service \o "|" \o event.event \o "|" \o surSiteStr

(***************************************************************************)
(* External calendar.  An event of the external calendar is recorded with  *)
(* its id and the hash of the source event it was created for.  Ids are    *)
(* opaque: a new event gets the least id no live event and no tracking     *)
(* entry holds.                                                            *)
(***************************************************************************)
EventIds == 1..MaxIds

UsedIds(cal, maps) ==
    {ev.id : ev \in cal} \cup
    UNION {{m[h].gcalEventId : h \in DOMAIN m} : m \in maps}

createCalendarEvent(cal, event, usedIds) ==
    LET id == Min(EventIds \ usedIds)
    IN  [id |-> id,
         gcal |-> cal \cup {[id |-> id, hash |-> computeEventHash(event)]}]

\* The try/catch of deleteCalendarEvent swallows every error of the lookup
\* and of the delete, so nothing is ever thrown to the caller.
deleteCalendarEvent(cal, gcalEventId, callFails) ==
    [gcal |-> IF callFails THEN cal ELSE {ev \in cal : ev.id # gcalEventId},
     thrown |-> FALSE]

(***************************************************************************)
(* syncToGoogleCalendar: the loop over the events to sync.                 *)
(***************************************************************************)
\* The create branch of the loop body: the call throws and is logged, or the
\* event is created and its entry set in the new tracking map.
CreateBranch(acc, event, i, hash, trackingMap, createThrows) ==
    LET seen == acc.seenHashes \cup {hash}
    IN  IF i \in createThrows
        THEN [acc EXCEPT !.seenHashes = seen,
                         !.errorSheet = logError(@, "SYNC_GCAL", event.department,
                                                 event.rowIndex, "Echec synchronisation"),
                         !.createThrown = @ \cup {hash},
                         !.callsFailed = @ + 1,
                         !.syncErrors = @ + 1]
        ELSE LET used == UsedIds(acc.gcal, {trackingMap, acc.newTrackingMap})
             IN  IF EventIds \ used = {}
                 THEN [acc EXCEPT !.full = TRUE]
                 ELSE LET made == createCalendarEvent(acc.gcal, event, used)
                      IN  [acc EXCEPT !.seenHashes = seen,
                                      !.gcal = made.gcal,
                                      !.newTrackingMap =
                                          MapSet(@, hash,
                                                 [gcalEventId |-> made.id,
                                                  department |-> event.department]),
                                      !.created = Append(@, hash)]

\* A loop body that never looks the hash up in the tracking store: every
\* event to sync is created again.
SyncOneEvent_NoLookup(acc, event, i, trackingMap, createThrows) ==
    CreateBranch(acc, event, i, computeEventHash(event), EmptyMap, createThrows)

\* A loop body that skips a tracked hash without carrying its entry over to
\* the new tracking map.
SyncOneEvent_NoCarry(acc, event, i, trackingMap, createThrows) ==
    LET hash == computeEventHash(event)
    IN  IF hash \in DOMAIN trackingMap
        THEN [acc EXCEPT !.seenHashes = @ \cup {hash},
                         !.unchanged = @ + 1]
        ELSE CreateBranch(acc, event, i, hash, trackingMap, createThrows)

SyncOneEvent(acc, event, i, trackingMap, createThrows) ==
    LET hash == computeEventHash(event)
        seen == acc.seenHashes \cup {hash}
    IN  IF hash \in DOMAIN trackingMap
        THEN [acc EXCEPT !.seenHashes = seen,
                         !.newTrackingMap = MapSet(@, hash, trackingMap[hash]),
                         !.unchanged = @ + 1]
        ELSE CreateBranch(acc, event, i, hash, trackingMap, createThrows)

RECURSIVE SyncEvents(_, _, _, _, _, _)
SyncEvents(acc, events, i, last, trackingMap, createThrows) ==
    IF i > last THEN acc
    ELSE SyncEvents(SyncOneEvent(acc, events[i], i, trackingMap, createThrows),
                    events, i + 1, last, trackingMap, createThrows)

(***************************************************************************)
(* syncToGoogleCalendar: the loop over the tracked hashes.                 *)
(***************************************************************************)
RECURSIVE DeleteStale(_, _, _, _)
DeleteStale(acc, todo, trackingMap, deleteThrows) ==
    IF todo = {} THEN acc
    ELSE LET hash == CHOOSE h \in todo : TRUE
             value == trackingMap[hash]
             res == deleteCalendarEvent(acc.gcal, value.gcalEventId,
                                        hash \in deleteThrows)
             call == [acc EXCEPT !.callsFailed =
                                     IF hash \in deleteThrows THEN @ + 1 ELSE @]
             next == IF res.thrown
                     THEN [call EXCEPT !.errorSheet =
                                           logError(@, "SYNC_GCAL", value.department,
                                                    0, "Echec suppression"),
                                       !.syncErrors = @ + 1]
                     ELSE [call EXCEPT !.gcal = res.gcal,
                                       !.deleted = @ + 1,
                                       !.deleteCalls = @ \cup {value.gcalEventId}]
         IN  DeleteStale(next, todo \ {hash}, trackingMap, deleteThrows)

(***************************************************************************)
(* syncToGoogleCalendar, as a function of the state it reads and of what   *)
(* the outside world does during the run:                                  *)
(*   calFound      getCalendar() returns a calendar                        *)
(*   createThrows  positions (in eventsToSync) whose create call throws    *)
(*   deleteThrows  tracked hashes whose delete call fails                  *)
(*   abort         where the execution is cut short, if anywhere: during   *)
(*                 the event loop after abort.k events, or on rewriting    *)
(*                 the tracking sheet (an uncaught error of the sheet      *)
(*                 service, the execution time limit)                      *)
(***************************************************************************)
EventsToSync(rows) ==
    SelectSeq(getAllEvents(rows), LAMBDA event : event.surSiteCCFHK = TRUE)

SyncableHashes(rows) ==
    {computeEventHash(event) : event \in Range(EventsToSync(rows))}

\* Positions of the events whose hash is not tracked: the create calls.
CreateCalls(rows, trackingMap) ==
    {i \in 1..Len(EventsToSync(rows)) :
        computeEventHash(EventsToSync(rows)[i]) \notin DOMAIN trackingMap}

AbortPoints(n) ==
    {[phase |-> "none", k |-> n], [phase |-> "write", k |-> n]}
        \cup {[phase |-> "events", k |-> k] : k \in 0..n}

\* A run that rewrites the tracking sheet from the still empty new tracking
\* map before it throws for the missing calendar.
FatalRun_TrackingRewritten(start, cleared, trackingMap) ==
    [start EXCEPT !.errorSheet = cleared] @@
    [status |-> "fatal", tracking |-> start.newTrackingMap, stale |-> {}]

\* getCalendar() returns null: the run throws after clearing the SYNC_GCAL
\* errors, before it reads the events or the tracking sheet.
FatalRun(start, cleared, trackingMap) ==
    [start EXCEPT !.errorSheet = cleared] @@
    [status |-> "fatal", tracking |-> trackingMap, stale |-> {}]

SyncRun(rows, errors, trackingMap, cal, calFound, createThrows, deleteThrows, abort) ==
    LET cleared == clearErrorsByType(errors, "SYNC_GCAL")
        eventsToSync == EventsToSync(rows)
        start == [seenHashes |-> {},
                  newTrackingMap |-> EmptyMap,
                  gcal |-> cal,
                  errorSheet |-> clearErrorsByType(cleared, "DONNEES"),
                  created |-> << >>,
                  createThrown |-> {},
                  unchanged |-> 0,
                  deleted |-> 0,
                  deleteCalls |-> {},
                  syncErrors |-> 0,
                  callsFailed |-> 0,
                  full |-> FALSE]
        afterEvents == SyncEvents(start, eventsToSync, 1, abort.k,
                                  trackingMap, createThrows)
        stale == DOMAIN trackingMap \ afterEvents.seenHashes
        afterDeletes == DeleteStale(afterEvents, stale, trackingMap, deleteThrows)
    IN  IF ~calFound
        THEN FatalRun(start, cleared, trackingMap)
        ELSE IF abort.phase = "events"
        THEN afterEvents @@
             [status |-> "aborted", tracking |-> trackingMap, stale |-> {}]
        ELSE IF abort.phase = "write"
        THEN afterDeletes @@
             [status |-> "aborted", tracking |-> trackingMap, stale |-> stale]
        ELSE afterDeletes @@
             [status |-> "completed", tracking |-> afterDeletes.newTrackingMap,
              stale |-> stale]

syncToGoogleCalendar(debounced) ==
    \E calFound \in BOOLEAN,
       createThrows \in SUBSET CreateCalls(sheetRows, tracking),
       deleteThrows \in SUBSET (DOMAIN tracking \ SyncableHashes(sheetRows)),
       abort \in AbortPoints(Len(EventsToSync(sheetRows))) :
        LET out == SyncRun(sheetRows, errorSheet, tracking, gcal, calFound,
                           createThrows, deleteThrows, abort)
        IN  /\ calFound \/ (createThrows = {} /\ deleteThrows = {}
                             /\ abort.phase = "none")
            /\ ~out.full
            /\ errorSheet' = out.errorSheet
            /\ tracking' = out.tracking
            /\ gcal' = out.gcal
            /\ unsynced' = IF out.status = "fatal" THEN unsynced ELSE FALSE
            /\ settled' = IF out.status # "completed" THEN "no"
                          ELSE IF out.createThrown # {} THEN "createFailed"
                          ELSE "clean"
            /\ lastRun' = [status |-> out.status,
                           debounced |-> debounced,
                           tracked |-> tracking,
                           gcalBefore |-> gcal,
                           current |-> SyncableHashes(sheetRows),
                           created |-> out.created,
                           createThrown |-> out.createThrown,
                           stale |-> out.stale,
                           deleteFailed |-> deleteThrows \cap out.stale,
                           seenHashes |-> out.seenHashes,
                           deleteCalls |-> out.deleteCalls,
                           callsFailed |-> out.callsFailed,
                           settledBefore |-> settled]

(***************************************************************************)
(* renderCalendar: throws when the calendar sheet is missing; otherwise    *)
(* reads the events (which clears the DONNEES rows of the error sheet) and *)
(* rewrites the grid.  The filters are left at "everything".               *)
(***************************************************************************)
renderCalendar(rows, errors, calSheet) ==
    IF ~calSheet
    THEN [thrown |-> TRUE, rendered |-> << >>, errorSheet |-> errors]
    ELSE [thrown |-> FALSE,
          rendered |-> [i \in 1..Len(getAllEvents(rows)) |-> getAllEvents(rows)[i].event],
          errorSheet |-> clearErrorsByType(errors, "DONNEES")]

(***************************************************************************)
(* Debounce scheduler.                                                     *)
(***************************************************************************)
Trigger(handler, after) == [handler |-> handler, after |-> after, fired |-> FALSE]

scheduleGoogleCalendarSync(trigs) ==
    Append(SelectSeq(trigs, LAMBDA t : t.handler # "executeDebouncedSync"),
           Trigger("executeDebouncedSync", syncDebounceSeconds))

Pending(trigs) ==
    SelectSeq(trigs, LAMBDA t : t.handler = "executeDebouncedSync" /\ ~t.fired)

(***************************************************************************)
(* The state after installCalendar on a workbook whose department sheet    *)
(* holds no event yet.                                                     *)
(***************************************************************************)
NoRun == [status |-> "none"]

NoCall == [fn |-> "none"]

InitSystem(rows) ==
    /\ sheetRows = rows
    /\ calSheetExists = TRUE
    /\ rendered = renderCalendar(rows, << >>, TRUE).rendered
    /\ errorSheet = << >>
    /\ tracking = EmptyMap
    /\ gcal = {}
    /\ triggers = <<Trigger("renderCalendar", 0), Trigger("onEdit", 0)>>
    /\ pc = "idle"
    /\ lastRun = NoRun
    /\ settled = "no"
    /\ unsynced = FALSE
    /\ sinceEdit = syncDebounceSeconds
    /\ burstRuns = 0
    /\ burstEdits = 0

InitWith(rows) == InitSystem(rows) /\ fnCall = NoCall

Init == InitWith(<< >>)

(***************************************************************************)
(* onEdit, department branch: the edit of the department sheet, then the   *)
(* handler (render, then schedule the debounced sync).  An edit that       *)
(* follows the previous one by less than the quiet period continues the    *)
(* burst; any other edit starts a new burst.                               *)
(***************************************************************************)
onEdit(rows) ==
    LET render == renderCalendar(rows, errorSheet, calSheetExists)
    IN  /\ sheetRows' = rows
        /\ rendered' = IF render.thrown THEN rendered ELSE render.rendered
        /\ errorSheet' = render.errorSheet
        /\ triggers' = IF render.thrown THEN triggers
                       ELSE scheduleGoogleCalendarSync(triggers)
        /\ unsynced' = TRUE
        /\ settled' = "no"
        /\ sinceEdit' = 0
        /\ burstRuns' = IF sinceEdit < syncDebounceSeconds THEN burstRuns ELSE 0
        /\ burstEdits' = IF sinceEdit >= syncDebounceSeconds THEN 1
                         ELSE IF burstEdits < 2 THEN burstEdits + 1 ELSE burstEdits
        /\ lastRun' = NoRun
        /\ UNCHANGED <<calSheetExists, tracking, gcal, pc, fnCall>>

\* onEdit, calendar branch: a filter cell, or the reset or refresh checkbox
\* once it is ticked; the handler renders and returns.
onEditCalendarSheet ==
    LET render == renderCalendar(sheetRows, errorSheet, calSheetExists)
    IN  /\ calSheetExists
        /\ rendered' = render.rendered
        /\ errorSheet' = render.errorSheet
        /\ lastRun' = NoRun
        /\ UNCHANGED <<sheetRows, calSheetExists, tracking, gcal, triggers, pc,
                       settled, unsynced, sinceEdit, burstRuns, burstEdits, fnCall>>

AppendRow ==
    /\ Len(sheetRows) < MaxRows
    /\ \E row \in RowValues : onEdit(Append(sheetRows, row))

DeleteRow ==
    \E i \in 1..Len(sheetRows) : onEdit(RemoveAt(sheetRows, i))

SetSurSite ==
    \E i \in 1..Len(sheetRows), value \in SurSiteValues :
        /\ value # sheetRows[i].surSite
        /\ onEdit([sheetRows EXCEPT ![i].surSite = value])

(***************************************************************************)
(* The calendar sheet: deleted by a user, created again by installCalendar *)
(* (which also installs the two standing triggers and renders).            *)
(***************************************************************************)
DeleteCalendarSheet ==
    /\ calSheetExists
    /\ calSheetExists' = FALSE
    /\ rendered' = << >>
    /\ lastRun' = NoRun
    /\ UNCHANGED <<sheetRows, errorSheet, tracking, gcal, triggers, pc, settled,
                   unsynced, sinceEdit, burstRuns, burstEdits, fnCall>>

installCalendar ==
    LET kept == SelectSeq(triggers,
                          LAMBDA t : t.handler \notin {"renderCalendar", "onEdit"})
        render == renderCalendar(sheetRows, errorSheet, TRUE)
    IN  /\ ~calSheetExists
        /\ calSheetExists' = TRUE
        /\ triggers' = kept \o <<Trigger("renderCalendar", 0), Trigger("onEdit", 0)>>
        /\ rendered' = render.rendered
        /\ errorSheet' = render.errorSheet
        /\ lastRun' = NoRun
        /\ UNCHANGED <<sheetRows, tracking, gcal, pc, settled, unsynced,
                       sinceEdit, burstRuns, burstEdits, fnCall>>

(***************************************************************************)
(* Time.  A trigger created with after(30 s) becomes due when 30 s have    *)
(* passed; the platform starts it then or later.                           *)
(***************************************************************************)
Elapse(t) ==
    IF t.handler = "executeDebouncedSync" /\ ~t.fired
    THEN [t EXCEPT !.after = IF @ > TickSeconds THEN @ - TickSeconds ELSE 0]
    ELSE t

Tick ==
    /\ triggers' = [i \in 1..Len(triggers) |-> Elapse(triggers[i])]
    /\ sinceEdit' = IF sinceEdit + TickSeconds < syncDebounceSeconds
                    THEN sinceEdit + TickSeconds ELSE syncDebounceSeconds
    /\ lastRun' = NoRun
    /\ UNCHANGED <<sheetRows, calSheetExists, rendered, errorSheet, tracking,
                   gcal, pc, settled, unsynced, burstRuns, burstEdits, fnCall>>

(***************************************************************************)
(* executeDebouncedSync: the platform starts the handler of a due trigger, *)
(* the handler deletes the executeDebouncedSync triggers, then syncs.      *)
(***************************************************************************)
FireTrigger ==
    /\ pc = "idle"
    /\ \E i \in 1..Len(triggers) :
        /\ triggers[i].handler = "executeDebouncedSync"
        /\ ~triggers[i].fired
        /\ triggers[i].after = 0
        /\ triggers' = [triggers EXCEPT ![i].fired = TRUE]
    /\ pc' = "fired"
    /\ burstRuns' = IF burstRuns < 2 THEN burstRuns + 1 ELSE burstRuns
    /\ lastRun' = NoRun
    /\ UNCHANGED <<sheetRows, calSheetExists, rendered, errorSheet, tracking,
                   gcal, settled, unsynced, sinceEdit, burstEdits, fnCall>>

executeDebouncedSync_deleteTriggers ==
    /\ pc = "fired"
    /\ triggers' = SelectSeq(triggers, LAMBDA t : t.handler # "executeDebouncedSync")
    /\ pc' = "sync"
    /\ lastRun' = NoRun
    /\ UNCHANGED <<sheetRows, calSheetExists, rendered, errorSheet, tracking,
                   gcal, settled, unsynced, sinceEdit, burstRuns, burstEdits, fnCall>>

executeDebouncedSync_sync ==
    /\ pc = "sync"
    /\ syncToGoogleCalendar(TRUE)
    /\ pc' = "idle"
    /\ UNCHANGED <<sheetRows, calSheetExists, rendered, triggers, sinceEdit,
                   burstRuns, burstEdits, fnCall>>

(***************************************************************************)
(* Menu "Synchroniser Google Calendar".                                    *)
(***************************************************************************)
ManualSync ==
    /\ pc = "idle"
    /\ syncToGoogleCalendar(FALSE)
    /\ UNCHANGED <<sheetRows, calSheetExists, rendered, triggers, pc, sinceEdit,
                   burstRuns, burstEdits, fnCall>>

(***************************************************************************)
(* Spec: the department sheet is edited and reconciliation is run from the *)
(* menu; no time passes, so no trigger becomes due.                        *)
(***************************************************************************)
Next ==
    \/ AppendRow
    \/ DeleteRow
    \/ SetSurSite
    \/ ManualSync

Spec == Init /\ [][Next]_vars

(***************************************************************************)
(* SpecDebounce: the scheduler.  The department sheet holds one on-site    *)
(* event and the user keeps changing its "Sur site CCFHK?" cell; time      *)
(* passes, triggers fire, the calendar sheet may be deleted and installed  *)
(* again.  SpecInstalled is the same with the calendar sheet kept.         *)
(***************************************************************************)
InitDebounce == InitWith(<<[event |-> "Gala", surSite |-> "Oui"]>>)

NextInstalled ==
    \/ SetSurSite
    \/ onEditCalendarSheet
    \/ Tick
    \/ FireTrigger
    \/ executeDebouncedSync_deleteTriggers
    \/ executeDebouncedSync_sync

NextDebounce ==
    \/ NextInstalled
    \/ DeleteCalendarSheet
    \/ installCalendar

SpecInstalled == InitDebounce /\ [][NextInstalled]_vars

SpecDebounce == InitDebounce /\ [][NextDebounce]_vars

(***************************************************************************)
(* Vocabulary of the properties.  lastRun describes the run that has just  *)
(* ended: the tracking store and the calendar it found, the syncable       *)
(* hashes it read, and what the outside world made fail.                   *)
(***************************************************************************)
RunCompleted == lastRun.status = "completed"

NoCallFailed == lastRun.createThrown = {} /\ lastRun.deleteFailed = {}

OldHashes == DOMAIN lastRun.tracked

CreatedEvents == gcal \ lastRun.gcalBefore

DeletedEvents == lastRun.gcalBefore \ gcal

EventsOf(cal, ids) == {ev \in cal : ev.id \in ids}

IdsOf(trackingMap, hashes) == {trackingMap[h].gcalEventId : h \in hashes}

SyncErrorRows == SelectSeq(errorSheet, LAMBDA r : r.type = "SYNC_GCAL")

\* C1: in a completed run in which no external call fails, the events
\* deleted are exactly those of the tracked hashes that are no longer
\* syncable, the hashes that get a new event are exactly the syncable hashes
\* that were not tracked, a hash on both sides keeps its entry and its event,
\* and the tracking store written has exactly the syncable hashes as keys,
\* each new one with the id of an event created for it by this run.
C1_ReconciliationDiff ==
    (RunCompleted /\ NoCallFailed) =>
        /\ DeletedEvents =
               EventsOf(lastRun.gcalBefore,
                        IdsOf(lastRun.tracked, OldHashes \ lastRun.current))
        /\ {ev.hash : ev \in CreatedEvents} = lastRun.current \ OldHashes
        /\ Range(lastRun.created) = lastRun.current \ OldHashes
        /\ \A h \in OldHashes \cap lastRun.current :
               /\ tracking[h] = lastRun.tracked[h]
               /\ EventsOf(lastRun.gcalBefore, {lastRun.tracked[h].gcalEventId})
                      \subseteq gcal
        /\ DOMAIN tracking = lastRun.current
        /\ \A h \in lastRun.current \ OldHashes :
               \E ev \in CreatedEvents :
                   ev.hash = h /\ ev.id = tracking[h].gcalEventId

\* C1 witness: a run with no failed call that deleted the event of a stale
\* hash and created the event of a new one.
C1_Witness ==
    /\ RunCompleted
    /\ NoCallFailed
    /\ OldHashes \ lastRun.current # {}
    /\ lastRun.current \ OldHashes # {}
    /\ DeletedEvents # {}
    /\ CreatedEvents # {}

\* What "nothing happened on the external calendar and in the tracking
\* store" means for the run that has just ended.
RunWasIdle ==
    /\ lastRun.created = << >>
    /\ lastRun.createThrown = {}
    /\ lastRun.deleteCalls = {}
    /\ gcal = lastRun.gcalBefore
    /\ tracking = lastRun.tracked

C3_FailedDeleteKeepsEntry ==
    RunCompleted =>
        \A h \in lastRun.deleteFailed :
            h \in DOMAIN tracking /\ tracking[h] = lastRun.tracked[h]

\* C4: when a create call for a hash throws, the tracking store written by
\* the run holds no entry for that hash.
C4_FailedCreateNotTracked ==
    RunCompleted => \A h \in lastRun.createThrown : h \notin DOMAIN tracking

\* C5: a run the calendar was found for and nothing cut short processed
\* every syncable event and every stale entry whatever calls failed, logged
\* one SYNC_GCAL error per failed create or delete call, and rewrote the
\* tracking store.
C5_FailuresLoggedRunContinues ==
    RunCompleted =>
        /\ lastRun.seenHashes = lastRun.current
        /\ lastRun.deleteCalls = IdsOf(lastRun.tracked, lastRun.stale)
        /\ Len(SyncErrorRows) = lastRun.callsFailed
        /\ DOMAIN tracking \subseteq lastRun.current

\* C6: the external calendar never holds two live events created for the
\* same content hash.
C6_NoDuplicateEvents ==
    \A e1 \in gcal, e2 \in gcal : e1.hash = e2.hash => e1 = e2

\* C10: after a completed run the tracking store holds only hashes of
\* on-site events, and every tracked hash that is no longer on-site (its
\* flag became 'Non' or blank) has lost its tracking entry and its external
\* event.
C10_OnlyOnSiteMirrored ==
    RunCompleted =>
        /\ DOMAIN tracking \subseteq SyncableHashes(sheetRows)
        /\ \A h \in OldHashes \ lastRun.current :
               /\ h \notin DOMAIN tracking
               /\ EventsOf(gcal, {lastRun.tracked[h].gcalEventId}) = {}

\* C26: a run that does not find the external calendar throws without any
\* create or delete call and leaves the tracking store and the calendar as
\* they were; a create or delete call that fails never makes the run fatal:
\* the run that nothing cut short still processed every event to sync and
\* every stale entry.  (The rows with data errors are the subject of C16.)
C26_OnlyStructuralFailureFatal ==
    /\ lastRun.status = "fatal" =>
           /\ tracking = lastRun.tracked
           /\ gcal = lastRun.gcalBefore
           /\ lastRun.created = << >>
           /\ lastRun.deleteCalls = {}
           /\ lastRun.callsFailed = 0
    /\ (lastRun.status = "completed" /\ lastRun.callsFailed > 0) =>
           /\ lastRun.seenHashes = lastRun.current
           /\ lastRun.deleteCalls = IdsOf(lastRun.tracked, lastRun.stale)

\* C26 witness: the calendar is not found by a run that had a tracked event
\* to delete; the entry and the event are still there.
C26_Witness ==
    /\ lastRun.status = "fatal"
    /\ lastRun.current = {}
    /\ DOMAIN tracking # {}
    /\ gcal # {}

\* C27: after every completed run, every live event of the external
\* calendar that the engine created is referenced by exactly one tracking
\* entry, and every tracking entry references a live event.
C27_NoOrphanedEvents ==
    RunCompleted =>
        /\ \A ev \in gcal :
               Cardinality({h \in DOMAIN tracking :
                               tracking[h].gcalEventId = ev.id}) = 1
        /\ \A h \in DOMAIN tracking :
               \E ev \in gcal : ev.id = tracking[h].gcalEventId

(***************************************************************************)
(* The scheduler.                                                          *)
(***************************************************************************)
DebounceTrigger == Trigger("executeDebouncedSync", syncDebounceSeconds)

\* C7: every edit of the department sheet leaves exactly one reconciliation
\* task scheduled, the new one, due after the quiet period; and at no time
\* is more than one task pending.
C7_EditReplacesPendingTask ==
    /\ [][sheetRows' # sheetRows =>
              Pending(triggers') = <<DebounceTrigger>>]_vars
    /\ [](Len(Pending(triggers)) <= 1)

\* C8: a debounced run starts no earlier than one quiet period after the
\* last edit, a burst never gets more than one run, and once the burst is
\* over (the quiet period has passed, nothing is pending, nothing runs) it
\* has got exactly one.
C8_BurstCoalesced ==
    /\ [][(pc = "idle" /\ pc' = "fired") =>
              sinceEdit >= syncDebounceSeconds]_vars
    /\ [](burstRuns <= 1)
    /\ []((/\ burstEdits >= 1
           /\ sinceEdit >= syncDebounceSeconds
           /\ Pending(triggers) = << >>
           /\ pc = "idle") => burstRuns = 1)

\* C9: every edit of the department sheet is eventually followed by a run
\* that reads the sources after it.  Once edits stop, such a run can only
\* come from a pending task or from an invocation that has started and has
\* not read the sources yet, so an edit that no run has read always has one
\* of the two.
C9_EditNotLost ==
    unsynced => (Pending(triggers) # << >> \/ pc \in {"fired", "sync"})

\* C28: every edit of the department sheet leaves a reconciliation task
\* pending when onEdit ends, whether it returns or throws; onEdit on the
\* calendar sheet neither schedules nor cancels a task.
C28_EditLeavesTaskPending ==
    /\ [][sheetRows' # sheetRows => Pending(triggers') # << >>]_vars
    /\ [][onEditCalendarSheet => triggers' = triggers]_vars

(***************************************************************************)
(* SpecHash: computeEventHash applied to two events.  Services and titles  *)
(* are free text typed in the sheet; the other fields of an event that the *)
(* hash does not read vary with otherFields.                               *)
(***************************************************************************)
hashedFields ==
    [department : {"Musique", "Sport"},
     startDate : HashedDates,
     endDate : {NoDate, NewDate(2025, 8, 2, 9, 30, 0)},
     service : {"A", "A|B"},
     event : {"C", "B|C"},
     surSiteCCFHK : BOOLEAN]

otherFields ==
    {[surCalendrierExcel |-> FALSE, hasTime |-> FALSE, sheetId |-> 10, rowIndex |-> 2],
     [surCalendrierExcel |-> FALSE, hasTime |-> TRUE, sheetId |-> 10, rowIndex |-> 3],
     [surCalendrierExcel |-> TRUE, hasTime |-> TRUE, sheetId |-> 20, rowIndex |-> 5]}

HashEvents == {h @@ o : h \in hashedFields, o \in otherFields}

InitHash ==
    /\ InitSystem(<< >>)
    /\ HashedDates = {NewDate(2025, 8, 1, 0, 0, 0), NewDate(2025, 8, 2, 9, 30, 0)}
    /\ \A date \in HashedDates : toISOString(date) = FormatISO(date)
    /\ fnCall \in [fn : {"computeEventHash"}, args : HashEvents \X HashEvents,
                   done : {FALSE}, result : {<< >>}]

ComputeEventHashes ==
    /\ fnCall.fn = "computeEventHash"
    /\ ~fnCall.done
    /\ fnCall' = [fnCall EXCEPT
                      !.done = TRUE,
                      !.result = <<computeEventHash(fnCall.args[1]),
                                   computeEventHash(fnCall.args[2])>>]
    /\ UNCHANGED sysVars

NextHash == ComputeEventHashes

SpecHash == InitHash /\ [][NextHash]_vars

SameHashedFields(e1, e2) ==
    /\ e1.department = e2.department
    /\ e1.startDate = e2.startDate
    /\ e1.endDate = e2.endDate
    /\ e1.surSiteCCFHK = e2.surSiteCCFHK
    /\ e1.service = e2.service
    /\ e1.event = e2.event

\* C11: two events have the same hash exactly when they agree on department,
\* start, end, on-site flag, service and title: a difference in one of the
\* six gives different hashes, and the other fields (on-external-calendar
\* flag, hasTime, sheet id, row number) never matter.
C11_HashSensitivity ==
    (fnCall.fn = "computeEventHash" /\ fnCall.done) =>
        (SameHashedFields(fnCall.args[1], fnCall.args[2])
            <=> fnCall.result[1] = fnCall.result[2])

(***************************************************************************)
(* SpecPrefix: the "Sur calendrier excel?" cell of a row of a department   *)
(* sheet is normalized as getAllEvents does, and the event's prefix on the *)
(* calendar is computed as formatDayCell does.                             *)
(***************************************************************************)
CalendarCells ==
    {"", "  ", "Oui", "oui", "OUI", " Oui ", "x", "X", "1", "Yes", "TRUE",
     "Non", "non", "NON", " Non", "A voir"}

BlankCells == {""}

ExplicitNonCells == {"Non", "non", "NON", " Non"}

PrefixDepartments == Range(sortedDepartments) \cup {"Inconnu"}

InitPrefix ==
    /\ InitSystem(<< >>)
    /\ fnCall \in [fn : {"getCalendarStatusPrefix"},
                   args : CalendarCells \X PrefixDepartments,
                   done : {FALSE}, result : {<< >>}]

NormalizeFlagAndPrefix ==
    /\ fnCall.fn = "getCalendarStatusPrefix"
    /\ ~fnCall.done
    /\ LET cell == fnCall.args[1]
           event == [surCalendrierExcel |-> toBooleanFilter(cell),
                     surCalendrierExcelRaw |-> Lower(Trim(cell))]
           deptEmoji == getDepartmentEmoji(fnCall.args[2], buildEmojiMap)
       IN  fnCall' = [fnCall EXCEPT
                          !.done = TRUE,
                          !.result = [event |-> event,
                                      deptEmoji |-> deptEmoji,
                                      prefix |-> getCalendarStatusPrefix(event,
                                                                         deptEmoji)]]
    /\ UNCHANGED sysVars

NextPrefix == NormalizeFlagAndPrefix

SpecPrefix == InitPrefix /\ [][NextPrefix]_vars

PrefixDone == fnCall.fn = "getCalendarStatusPrefix" /\ fnCall.done

\* C15: a blank cell and an explicit "non" both give the flag false, a blank
\* cell shows the '?' glyph before the department glyph, an explicit "non"
\* shows the hidden glyph before the department glyph, and a true flag
\* shows the department glyph alone.
C15_TriStateFlag ==
    PrefixDone =>
        LET cell == fnCall.args[1]
            out == fnCall.result
        IN  /\ cell \in BlankCells =>
                   /\ out.event.surCalendrierExcel = FALSE
                   /\ out.prefix = "(?)" \o out.deptEmoji
            /\ cell \in ExplicitNonCells =>
                   /\ out.event.surCalendrierExcel = FALSE
                   /\ out.prefix = "(hidden)" \o out.deptEmoji
            /\ out.event.surCalendrierExcel = TRUE =>
                   out.prefix = out.deptEmoji

\* C15 witness: an explicit "Non" cell of a known department has been
\* normalized and prefixed.
C15_Witness ==
    /\ PrefixDone
    /\ fnCall.args[1] = "Non"
    /\ fnCall.args[2] = "Musique"
    /\ fnCall.result.prefix = "(hidden)(green)"

(***************************************************************************)
(* SpecGrid: the grid of one month is generated and formatted, for a month *)
(* of GridYears, a year filter and a wall-clock date.  No event is on the  *)
(* grid.                                                                   *)
(***************************************************************************)
GridYears == 2024..2027

YearFilters == {"2024-2025", "2025-2026", "2026-2027"}

\* Saturday 19 April 2025, a public holiday of 2024-2025, and Wednesday
\* 10 September 2025.
Todays == {NewDate(2025, 3, 19, 10, 0, 0), NewDate(2025, 8, 10, 9, 0, 0)}

InitGrid ==
    /\ InitSystem(<< >>)
    /\ fnCall \in [fn : {"generateMonthGrid"},
                   args : [year : GridYears, month : 0..11,
                           yearFilter : YearFilters, today : Todays],
                   done : {FALSE}, result : {<< >>}]

GenerateAndFormatMonth ==
    /\ fnCall.fn = "generateMonthGrid"
    /\ ~fnCall.done
    /\ LET in == fnCall.args
           weeks == generateMonthGrid(in.year, in.month, EmptyMap, buildEmojiMap,
                                      in.today, in.yearFilter)
       IN  fnCall' = [fnCall EXCEPT
                          !.done = TRUE,
                          !.result = [weeks |-> weeks,
                                      backgrounds |-> applyFormatting(weeks)]]
    /\ UNCHANGED sysVars

NextGrid == GenerateAndFormatMonth

SpecGrid == InitGrid /\ [][NextGrid]_vars

GridDone == fnCall.fn = "generateMonthGrid" /\ fnCall.done

\* The cells of the grid, row after row.
GridCells ==
    LET weeks == fnCall.result.weeks
    IN  [k \in 1..(7 * Len(weeks)) |-> weeks[((k - 1) \div 7) + 1][((k - 1) % 7) + 1]]

\* C12: the grid of a month has 4 to 6 rows of 7 cells; its non-blank cells
\* are the days 1..daysInMonth, each once and in increasing order; day d is
\* in the Monday-first column of its weekday; and a blank cell is either in
\* the first row before day 1 or in the last row after the last day.
C12_GridCompleteness ==
    GridDone =>
        LET weeks == fnCall.result.weeks
            year == fnCall.args.year
            month == fnCall.args.month
            days == SelectSeq(GridCells, LAMBDA cell : cell.dayNumber # NoDay)
        IN  /\ Len(weeks) \in 4..6
            /\ \A w \in 1..Len(weeks) : Len(weeks[w]) = 7
            /\ Len(days) = DaysInMonth(year, month)
            /\ \A d \in 1..Len(days) : days[d].dayNumber = d
            /\ \A w \in 1..Len(weeks), c \in 1..7 :
                   LET cell == weeks[w][c]
                   IN  IF cell.dayNumber # NoDay
                       THEN c - 1 = (getDay(NewDate(year, month, cell.dayNumber,
                                                    0, 0, 0)) + 6) % 7
                       ELSE \/ w = 1 /\ \A b \in 1..c : weeks[w][b].dayNumber = NoDay
                            \/ w = Len(weeks)
                                 /\ \A b \in c..7 : weeks[w][b].dayNumber = NoDay

\* C12 witness: a 6-row grid (a 31-day month that starts on a Saturday).
C12_Witness ==
    /\ GridDone
    /\ Len(fnCall.result.weeks) = 6
    /\ fnCall.result.weeks[1][6].dayNumber = 1
    /\ fnCall.result.weeks[6][1].dayNumber = 31

\* The cells (row, column) of the grid that hold a day.
DayCells ==
    {wc \in (1..Len(fnCall.result.weeks)) \X (1..7) :
        fnCall.result.weeks[wc[1]][wc[2]].dayNumber # NoDay}

CellAt(wc) == fnCall.result.weeks[wc[1]][wc[2]]

BackgroundAt(wc) == fnCall.result.backgrounds[wc[1]][wc[2]]

IsWeekendColumn(wc) == wc[2] \in {6, 7}

WeekendColor(wc) == IF wc[2] = 6 THEN colors.saturday ELSE colors.sunday

\* C13 as stated: every public holiday that falls on a Saturday or a Sunday
\* is rendered with the public-holiday background.
C13_HolidayOverWeekendAsStated ==
    GridDone =>
        \A wc \in DayCells :
            (CellAt(wc).publicHoliday # NoHoliday /\ IsWeekendColumn(wc))
                => BackgroundAt(wc) = colors.publicHoliday

\* C13 amended: every public holiday that falls on a Saturday or a Sunday
\* and is not today is rendered with the public-holiday background, never
\* with a weekend background; when it is today it has the today highlight.
C13_HolidayOverWeekend ==
    GridDone =>
        \A wc \in DayCells :
            (CellAt(wc).publicHoliday # NoHoliday /\ IsWeekendColumn(wc))
                => /\ BackgroundAt(wc) # WeekendColor(wc)
                   /\ BackgroundAt(wc) = IF CellAt(wc).isToday THEN todayColor
                                         ELSE colors.publicHoliday

\* C13 witness: Saturday 4 April 2026, a public holiday of 2025-2026, has
\* the public-holiday background.
C13_Witness ==
    /\ GridDone
    /\ \E wc \in DayCells :
           /\ wc[2] = 6
           /\ CellAt(wc).date = NewDate(2026, 3, 4, 0, 0, 0)
           /\ CellAt(wc).publicHoliday # NoHoliday
           /\ ~CellAt(wc).isToday
           /\ BackgroundAt(wc) = colors.publicHoliday

Chars(str) ==
    CASE str = "" -> << >>
      [] str = "2024-2025" -> <<"2", "0", "2", "4", "-", "2", "0", "2", "5">>
      [] str = "2025-2026" -> <<"2", "0", "2", "5", "-", "2", "0", "2", "6">>
      [] str = "2025-2027" -> <<"2", "0", "2", "5", "-", "2", "0", "2", "7">>
      [] str = "2026-2025" -> <<"2", "0", "2", "6", "-", "2", "0", "2", "5">>
      [] str = "x2025-2026" -> <<"x", "2", "0", "2", "5", "-", "2", "0", "2", "6">>
      [] str = "2025" -> <<"2", "0", "2", "5">>
      [] str = "2025/2026" -> <<"2", "0", "2", "5", "/", "2", "0", "2", "6">>
      [] str = "Tous" -> <<"T", "o", "u", "s">>
      [] str = "Chorale" -> <<"C", "h", "o", "r", "a", "l", "e">>
      [] str = "Messe" -> <<"M", "e", "s", "s", "e">>
      [] str = "Concert" -> <<"C", "o", "n", "c", "e", "r", "t">>
      [] str = "messe" -> <<"m", "e", "s", "s", "e">>
      [] str = " " -> <<" ">>

toLowerCase(chars) ==
    [i \in 1..Len(chars) |->
        CASE chars[i] = "C" -> "c"
          [] chars[i] = "M" -> "m"
          [] chars[i] = "T" -> "t"
          [] OTHER -> chars[i]]

\* String.prototype.includes on character sequences.
includes(text, search) ==
    \E i \in 0..(Len(text) - Len(search)) :
        \A j \in 1..Len(search) : text[i + j] = search[j]

Digits == <<"0", "1", "2", "3", "4", "5", "6", "7", "8", "9">>

IsDigit(c) == \E d \in 1..10 : Digits[d] = c

DigitValue(c) == (CHOOSE d \in 1..10 : Digits[d] = c) - 1

\* parseInt of a sequence of digits.
RECURSIVE parseInt(_)
parseInt(chars) ==
    IF chars = << >> THEN 0
    ELSE 10 * parseInt(SubSeq(chars, 1, Len(chars) - 1)) + DigitValue(chars[Len(chars)])

\* The positions where /(\d{4})-(\d{4})/ matches.
YearMatches(chars) ==
    {i \in 1..(Len(chars) - 8) :
        /\ \A j \in 0..3 : IsDigit(chars[i + j])
        /\ chars[i + 4] = "-"
        /\ \A j \in 5..8 : IsDigit(chars[i + j])}

\* A window that ends on 31 July at midnight.
parseAcademicYear_EndMidnight(yearStr, now) ==
    LET chars == Chars(yearStr)
        matches == YearMatches(chars)
    IN  IF matches = {}
        THEN LET year == IF getMonth(now) >= 7 THEN getFullYear(now)
                         ELSE getFullYear(now) - 1
             IN  [start |-> NewDate(year, 7, 1, 0, 0, 0),
                  end |-> NewDate(year + 1, 6, 31, 0, 0, 0)]
        ELSE LET first == CHOOSE i \in matches : \A k \in matches : i <= k
                 startYear == parseInt(SubSeq(chars, first, first + 3))
             IN  [start |-> NewDate(startYear, 7, 1, 0, 0, 0),
                  end |-> NewDate(startYear + 1, 6, 31, 0, 0, 0)]

parseAcademicYear(yearStr, now) ==
    LET chars == Chars(yearStr)
        matches == YearMatches(chars)
    IN  IF matches = {}
        THEN LET year == IF getMonth(now) >= 7 THEN getFullYear(now)
                         ELSE getFullYear(now) - 1
             IN  [start |-> NewDate(year, 7, 1, 0, 0, 0),
                  end |-> NewDate(year + 1, 6, 31, 23, 59, 59)]
        ELSE LET first == CHOOSE i \in matches : \A k \in matches : i <= k
                 startYear == parseInt(SubSeq(chars, first, first + 3))
             IN  [start |-> NewDate(startYear, 7, 1, 0, 0, 0),
                  end |-> NewDate(startYear + 1, 6, 31, 23, 59, 59)]

monthNames ==
    <<"aout", "septembre", "octobre", "novembre", "decembre", "janvier",
      "fevrier", "mars", "avril", "mai", "juin", "juillet">>

\* Array.prototype.indexOf on monthNames, 0-based, -1 when absent.
MonthNameIndex(name) ==
    IF \E i \in 1..Len(monthNames) : monthNames[i] = name
    THEN (CHOOSE i \in 1..Len(monthNames) : monthNames[i] = name) - 1
    ELSE -1

\* A time-range filter that lets every event pass.
passesTimeRangeFilter_Always(event, timeRange, yearRange, now) == TRUE

passesTimeRangeFilter(event, timeRange, yearRange, now) ==
    IF timeRange = "Tout" THEN TRUE
    ELSE IF timeRange = "Actuel + A venir"
    THEN event.date >= NewDate(getFullYear(now), getMonth(now), 1, 0, 0, 0)
    ELSE LET monthIndex == MonthNameIndex(Lower(timeRange))
         IN  IF monthIndex # -1
             THEN LET calendarMonth == (monthIndex + 7) % 12
                  IN  IF getMonth(event.date) # calendarMonth THEN FALSE
                      ELSE event.date >= yearRange.start /\ event.date <= yearRange.end
             ELSE TRUE

getFilteredEvents(allEvents, filters, now) ==
    LET yearRange == parseAcademicYear(filters.year, now)
        keep(event) ==
            IF event.date < yearRange.start \/ event.date > yearRange.end THEN FALSE
            ELSE IF ~passesTimeRangeFilter(event, filters.timeRange, yearRange, now)
            THEN FALSE
            ELSE IF filters.department # "Tous" /\ event.department # filters.department
            THEN FALSE
            ELSE IF /\ filters.search # ""
                    /\ ~includes(toLowerCase(Chars(event.service) \o Chars(" ")
                                               \o Chars(event.event)),
                                 Chars(filters.search))
            THEN FALSE
            ELSE IF /\ filters.surSiteCCFHK # ""
                    /\ filters.surSiteCCFHK # "Tous"
                    /\ event.surSiteCCFHK # (filters.surSiteCCFHK = "Oui")
            THEN FALSE
            ELSE IF /\ filters.surCalendrierExcel # ""
                    /\ filters.surCalendrierExcel # "Tous"
                    /\ event.surCalendrierExcel # (filters.surCalendrierExcel = "Oui")
            THEN FALSE
            ELSE TRUE
    IN  SelectSeq(allEvents, keep)

(***************************************************************************)
(* SpecFilter: parseAcademicYear is applied to a year token, and           *)
(* getFilteredEvents to a sorted list of events and a set of filters.      *)
(***************************************************************************)
YearTokens ==
    {"2024-2025", "2025-2026", "2025-2027", "2026-2025", "x2025-2026", "2025",
     "2025/2026", "Tous", ""}

\* Wednesday 10 September 2025, Thursday 5 March 2026, Saturday 1 August 2026.
Nows ==
    {NewDate(2025, 8, 10, 9, 0, 0), NewDate(2026, 2, 5, 9, 0, 0),
     NewDate(2026, 7, 1, 0, 0, 0)}

FilterEvent(date, department, title, raw, surSite) ==
    [date |-> date, department |-> department, service |-> "Chorale",
     event |-> title, surCalendrierExcelRaw |-> raw,
     surCalendrierExcel |-> toBooleanFilter(raw), surSiteCCFHK |-> surSite]

\* Lists of events as getAllEvents returns them, sorted by start.
EventLists ==
    {<< >>,
     <<FilterEvent(NewDate(2025, 6, 31, 23, 59, 59), "Musique", "Messe", "oui", TRUE),
       FilterEvent(NewDate(2025, 7, 1, 0, 0, 0), "Sport", "Concert", "", FALSE),
       FilterEvent(NewDate(2025, 8, 15, 10, 0, 0), "Musique", "Messe", "non", TRUE),
       FilterEvent(NewDate(2025, 8, 20, 10, 0, 0), "Musique", "Concert", "oui", FALSE)>>,
     <<FilterEvent(NewDate(2025, 7, 1, 0, 0, 0), "Musique", "Messe", "", TRUE),
       FilterEvent(NewDate(2026, 6, 31, 23, 59, 59), "Musique", "Messe", "non", FALSE),
       FilterEvent(NewDate(2026, 7, 1, 0, 0, 0), "Musique", "Concert", "oui", TRUE)>>,
     <<FilterEvent(NewDate(2025, 8, 1, 9, 0, 0), "Sport", "Messe", "oui", TRUE),
       FilterEvent(NewDate(2026, 6, 10, 18, 30, 0), "Sport", "Concert", "oui", TRUE),
       FilterEvent(NewDate(2026, 8, 2, 9, 0, 0), "Musique", "Messe", "oui", FALSE),
       FilterEvent(NewDate(2027, 6, 31, 12, 0, 0), "Musique", "Concert", "", FALSE)>>}

FilterSettings ==
    [year : {"2024-2025", "2025-2026", "2025-2027", "Tous"},
     timeRange : {"Tout", "Actuel + A venir", "septembre", "Septembre", "juillet",
                  "trimestre"},
     department : {"Tous", "Musique"},
     surCalendrierExcel : {"Tous", "Oui", "Non"},
     surSiteCCFHK : {"Tous", "Oui", "Non"},
     search : {"", "messe", "Messe"}]

InitFilter ==
    /\ InitSystem(<< >>)
    /\ \/ fnCall \in [fn : {"parseAcademicYear"},
                      args : [yearStr : YearTokens, now : Nows],
                      done : {FALSE}, result : {<< >>}]
       \/ fnCall \in [fn : {"getFilteredEvents"},
                      args : [allEvents : EventLists, filters : FilterSettings,
                              now : Nows],
                      done : {FALSE}, result : {<< >>}]

ParseAcademicYear ==
    /\ fnCall.fn = "parseAcademicYear"
    /\ ~fnCall.done
    /\ fnCall' = [fnCall EXCEPT
                      !.done = TRUE,
                      !.result = parseAcademicYear(fnCall.args.yearStr,
                                                   fnCall.args.now)]
    /\ UNCHANGED sysVars

GetFilteredEvents ==
    /\ fnCall.fn = "getFilteredEvents"
    /\ ~fnCall.done
    /\ fnCall' = [fnCall EXCEPT
                      !.done = TRUE,
                      !.result = getFilteredEvents(fnCall.args.allEvents,
                                                   fnCall.args.filters,
                                                   fnCall.args.now)]
    /\ UNCHANGED sysVars

NextFilter == ParseAcademicYear \/ GetFilteredEvents

SpecFilter == InitFilter /\ [][NextFilter]_vars

FilterDone == fnCall.fn = "getFilteredEvents" /\ fnCall.done

ParseDone == fnCall.fn = "parseAcademicYear" /\ fnCall.done

\* The window of academic year 2025-2026.
InWindow2025(event) ==
    /\ NewDate(2025, 7, 1, 0, 0, 0) <= event.date
    /\ event.date <= NewDate(2026, 6, 31, 23, 59, 59)

NeutralFilters(filters) ==
    /\ filters.timeRange = "Tout"
    /\ filters.department = "Tous"
    /\ filters.surCalendrierExcel = "Tous"
    /\ filters.surSiteCCFHK = "Tous"
    /\ filters.search = ""

\* C14: with the academic year "2025-2026", no event that starts outside
\* [2025-08-01 00:00:00, 2026-07-31 23:59:59] is kept, whatever the other
\* filters are, and when the other filters exclude nothing the events kept
\* are exactly those that start inside it.
C14_WindowCorrectness ==
    (FilterDone /\ fnCall.args.filters.year = "2025-2026") =>
        /\ \A event \in Range(fnCall.result) : InWindow2025(event)
        /\ NeutralFilters(fnCall.args.filters) =>
               \A event \in Range(fnCall.args.allEvents) :
                   InWindow2025(event) => event \in Range(fnCall.result)

\* C14 witness: with the year "2025-2026" and no other restriction, the events
\* of 2025-08-01 00:00 and 2026-07-31 23:59:59 are kept and the event of
\* 2026-08-01 00:00 is dropped.
C14_Witness ==
    /\ FilterDone
    /\ fnCall.args.filters.year = "2025-2026"
    /\ NeutralFilters(fnCall.args.filters)
    /\ \E first, last, after \in Range(fnCall.args.allEvents) :
           /\ first.date = NewDate(2025, 7, 1, 0, 0, 0)
           /\ last.date = NewDate(2026, 6, 31, 23, 59, 59)
           /\ after.date = NewDate(2026, 7, 1, 0, 0, 0)
           /\ first \in Range(fnCall.result)
           /\ last \in Range(fnCall.result)
           /\ after \notin Range(fnCall.result)

WellFormedToken(chars) ==
    /\ Len(chars) = 9
    /\ YearMatches(chars) = {1}

\* C19: a token "YYYY-YYYY" is mapped to the window from 1 August 00:00 of
\* the first year to 31 July 23:59:59 of the second year, and every other
\* token to the window from 1 August to 31 July that contains the current
\* date.
C19_AcademicYearWindow ==
    ParseDone =>
        LET chars == Chars(fnCall.args.yearStr)
            now == fnCall.args.now
            window == fnCall.result
        IN  IF WellFormedToken(chars)
            THEN /\ window.start = NewDate(parseInt(SubSeq(chars, 1, 4)), 7, 1, 0, 0, 0)
                 /\ window.end = NewDate(parseInt(SubSeq(chars, 6, 9)), 6, 31, 23, 59, 59)
            ELSE /\ window.start <= now
                 /\ now <= window.end
                 /\ \E year \in 2024..2027 :
                        /\ window.start = NewDate(year, 7, 1, 0, 0, 0)
                        /\ window.end = NewDate(year + 1, 6, 31, 23, 59, 59)

FlagPasses(setting, flag) ==
    CASE setting = "Tous" -> TRUE
      [] setting = "Oui" -> flag
      [] setting = "Non" -> ~flag

\* C20: the events returned are, in input order, exactly the events that
\* start inside the academic-year window, pass the time range, are of the
\* selected department, contain the search text as typed in their
\* lower-cased service and title, and pass both flag filters;
\* a flag filter on Tous excludes nothing, on Oui keeps the events whose
\* boolean is true and on Non those whose boolean is false.
C20_ConjunctiveFilters ==
    FilterDone =>
        LET filters == fnCall.args.filters
            now == fnCall.args.now
            yearRange == parseAcademicYear(filters.year, now)
            inWindow(event) ==
                yearRange.start <= event.date /\ event.date <= yearRange.end
            inTimeRange(event) ==
                CASE filters.timeRange = "Tout" -> TRUE
                  [] filters.timeRange = "Actuel + A venir" ->
                        \/ getFullYear(event.date) > getFullYear(now)
                        \/ /\ getFullYear(event.date) = getFullYear(now)
                           /\ getMonth(event.date) >= getMonth(now)
                  [] filters.timeRange \in {"septembre", "Septembre"} ->
                        getMonth(event.date) = 8
                  [] filters.timeRange = "juillet" -> getMonth(event.date) = 6
                  [] OTHER -> TRUE
            inDepartment(event) ==
                filters.department = "Tous" \/ event.department = filters.department
            hasText(event) ==
                \/ filters.search = ""
                \/ filters.search = "messe" /\ event.event = "Messe"
            all(event) ==
                /\ inWindow(event)
                /\ inTimeRange(event)
                /\ inDepartment(event)
                /\ hasText(event)
                /\ FlagPasses(filters.surSiteCCFHK, event.surSiteCCFHK)
                /\ FlagPasses(filters.surCalendrierExcel, event.surCalendrierExcel)
        IN  fnCall.result = SelectSeq(fnCall.args.allEvents, all)

\* C20 witness: the on-external-calendar filter on Non, with no other
\* restriction inside 2025-2026, keeps an event whose cell is blank and an
\* event whose cell says no, and drops an event whose cell says yes.
C20_Witness ==
    /\ FilterDone
    /\ fnCall.args.filters.surCalendrierExcel = "Non"
    /\ \E blank, no \in Range(fnCall.result) :
           /\ blank.surCalendrierExcelRaw = ""
           /\ no.surCalendrierExcelRaw = "non"
    /\ \E yes \in Range(fnCall.args.allEvents) :
           /\ yes.surCalendrierExcelRaw = "oui"
           /\ InWindow2025(yes)
           /\ yes \notin Range(fnCall.result)
    /\ Len(fnCall.result) >= 2

(***************************************************************************)
(* SpecErrors: clearErrorsByType is applied to an error sheet of at most   *)
(* MaxErrorRows rows, or to a spreadsheet without error sheet.             *)
(***************************************************************************)
MaxErrorRows == 3

ErrorTypes == {"DONNEES", "SYNC_GCAL", "SYSTEME"}

ErrorRows ==
    [type : ErrorTypes, department : {departmentName}, row : {2, 3},
     description : {"description"}]

ErrorSheets == UNION {[1..n -> ErrorRows] : n \in 0..MaxErrorRows}

InitErrors ==
    /\ InitSystem(<< >>)
    /\ \/ fnCall \in [fn : {"clearErrorsByType"},
                      args : [sheetExists : {TRUE}, sheet : ErrorSheets,
                              type : ErrorTypes],
                      done : {FALSE}, result : {<< >>}]
       \/ fnCall \in [fn : {"clearErrorsByType"},
                      args : [sheetExists : {FALSE}, sheet : {<< >>},
                              type : ErrorTypes],
                      done : {FALSE}, result : {<< >>}]

ClearErrorsByType ==
    /\ fnCall.fn = "clearErrorsByType"
    /\ ~fnCall.done
    /\ LET in == fnCall.args
       IN  fnCall' = [fnCall EXCEPT
                          !.done = TRUE,
                          !.result =
                              IF ~in.sheetExists
                              THEN [sheetExists |-> FALSE, sheet |-> in.sheet]
                              ELSE [sheetExists |-> TRUE,
                                    sheet |-> clearErrorsByType(in.sheet, in.type)]]
    /\ UNCHANGED sysVars

NextErrors == ClearErrorsByType

SpecErrors == InitErrors /\ [][NextErrors]_vars

ClearDone == fnCall.fn = "clearErrorsByType" /\ fnCall.done

\* C17: clearErrorsByType(T) leaves no row of type T, and the rows it leaves
\* are the rows of another type, each with its content, in the order they
\* had; without error sheet, or with a sheet that has only its header,
\* nothing changes.
C17_ClearsExactlyType ==
    ClearDone =>
        LET before == fnCall.args.sheet
            after == fnCall.result.sheet
            type == fnCall.args.type
            kept == {i \in 1..Len(before) : before[i].type # type}
            rank(i) == Cardinality({j \in kept : j <= i})
        IN  /\ fnCall.result.sheetExists = fnCall.args.sheetExists
            /\ Len(after) = Cardinality(kept)
            /\ \A i \in kept : after[rank(i)] = before[i]
            /\ \A k \in 1..Len(after) : after[k].type # type
            /\ (~fnCall.args.sheetExists \/ before = << >>) => after = before

\* C17 witness: a sheet with a row of type T between two rows of other
\* types is left with those two rows, in their order.
C17_Witness ==
    /\ ClearDone
    /\ fnCall.args.sheetExists
    /\ Len(fnCall.args.sheet) = 3
    /\ fnCall.args.sheet[1].type # fnCall.args.type
    /\ fnCall.args.sheet[2].type = fnCall.args.type
    /\ fnCall.args.sheet[3].type # fnCall.args.type
    /\ fnCall.args.sheet[1] # fnCall.args.sheet[3]
    /\ fnCall.result.sheet = <<fnCall.args.sheet[1], fnCall.args.sheet[3]>>

(***************************************************************************)
(* Event normalizer, row by row.  getAllEventsWithErrors is getAllEvents   *)
(* for a spreadsheet with one department sheet, with the cells of the date *)
(* columns as they come from getValues() and with the error sheet it       *)
(* leaves; getAllEvents above is its restriction to rows that have a title *)
(* and the date rowDate.  A cell is blank, a Date, a number or a text.     *)
(***************************************************************************)
BlankValue == [kind |-> "blank", date |-> NoDate, number |-> 0, text |-> ""]

DateValue(date) == [kind |-> "date", date |-> date, number |-> 0, text |-> ""]

NumberValue(n) == [kind |-> "number", date |-> NoDate, number |-> n, text |-> ""]

TextValue(text) == [kind |-> "text", date |-> NoDate, number |-> 0, text |-> text]

\* The result null of parseDateTimeValue.
NoParse == [date |-> NoDate, hasTime |-> FALSE]

\* !value
IsFalsy(value) ==
    \/ value.kind = "blank"
    \/ value.kind = "number" /\ value.number = 0
    \/ value.kind = "text" /\ value.text = ""

\* new Date(text): the time value, or NoDate for an Invalid Date.
DateFromText(text) ==
    CASE text = "2025-09-01" -> NewDate(2025, 8, 1, 0, 0, 0)
      [] text = "2025-09-01T18:30:00" -> NewDate(2025, 8, 1, 18, 30, 0)
      [] OTHER -> NoDate

hasTimeComponent(value) ==
    CASE value.kind = "date" ->
            getHours(value.date) # 0 \/ getMinutes(value.date) # 0
              \/ getSeconds(value.date) # 0
      [] value.kind = "number" -> (value.number % 1) # 0
      [] OTHER -> FALSE

\* A parser that takes every text for the date of time value 0.
parseDateTimeValue_AnyText(value) ==
    IF IsFalsy(value) THEN NoParse
    ELSE IF value.kind = "date" THEN [date |-> value.date, hasTime |-> FALSE]
    ELSE [date |-> 0, hasTime |-> FALSE]

parseDateTimeValue(value) ==
    IF IsFalsy(value) THEN NoParse
    ELSE LET date == CASE value.kind = "date" -> value.date
                       [] value.kind = "number" -> value.number \div 1000
                       [] OTHER -> DateFromText(value.text)
             hasTime == IF value.kind \in {"date", "number"}
                        THEN hasTimeComponent(value) ELSE FALSE
         IN  IF date = NoDate THEN NoParse ELSE [date |-> date, hasTime |-> hasTime]

\* The loop over the data rows of one sheet, from row i on.
RECURSIVE ProcessRows(_, _, _, _)
ProcessRows(acc, headers, data, i) ==
    IF i > Len(data) THEN acc
    ELSE
      LET row == data[i]
          rowNum == i + 1
          useLegacy == ~headers.startCol /\ headers.legacyDateCol
          service == Trim(row.service)
          eventName == Trim(row.event)
          startParsed == parseDateTimeValue(row.start)
      IN  IF startParsed = NoParse /\ eventName # ""
          THEN ProcessRows([acc EXCEPT !.errors =
                                logError(@, "DONNEES", departmentName, rowNum,
                                         "Date manquante ou invalide")],
                           headers, data, i + 1)
          ELSE IF startParsed = NoParse
          THEN ProcessRows(acc, headers, data, i + 1)
          ELSE
            LET readEnd == ~useLegacy /\ headers.endCol /\ ~IsFalsy(row.end)
                endParsed == IF readEnd THEN parseDateTimeValue(row.end) ELSE NoParse
                afterEnd == IF readEnd /\ endParsed = NoParse
                            THEN [acc EXCEPT !.errors =
                                      logError(@, "DONNEES", departmentName, rowNum,
                                               "Date de fin invalide")]
                            ELSE acc
            IN  IF eventName = ""
                THEN ProcessRows([afterEnd EXCEPT !.errors =
                                      logError(@, "DONNEES", departmentName, rowNum,
                                               "Nom d'evenement manquant")],
                                 headers, data, i + 1)
                ELSE ProcessRows([afterEnd EXCEPT !.events = Append(@,
                                      [date |-> startParsed.date,
                                       startDate |-> startParsed.date,
                                       endDate |-> endParsed.date,
                                       hasTime |-> startParsed.hasTime \/ endParsed.hasTime,
                                       service |-> service,
                                       event |-> eventName,
                                       department |-> departmentName,
                                       rowIndex |-> i + 1,
                                       surSiteCCFHK |-> FALSE,
                                       surCalendrierExcel |-> FALSE,
                                       surCalendrierExcelRaw |-> ""])],
                                 headers, data, i + 1)

\* A normalizer that does not clear the data errors of the earlier run.
getAllEventsWithErrors_NoClear(headers, data, errors) ==
    LET dateColIndex == headers.startCol \/ headers.legacyDateCol
        collected == IF Len(data) < 1 \/ ~dateColIndex
                     THEN [events |-> << >>, errors |-> errors]
                     ELSE ProcessRows([events |-> << >>, errors |-> errors],
                                      headers, data, 1)
    IN  [events |-> SortByStart(collected.events), errors |-> collected.errors]

getAllEventsWithErrors(headers, data, errors) ==
    LET cleared == clearErrorsByType(errors, "DONNEES")
        dateColIndex == headers.startCol \/ headers.legacyDateCol
        collected == IF Len(data) < 1 \/ ~dateColIndex
                     THEN [events |-> << >>, errors |-> cleared]
                     ELSE ProcessRows([events |-> << >>, errors |-> cleared],
                                      headers, data, 1)
    IN  [events |-> SortByStart(collected.events), errors |-> collected.errors]

(***************************************************************************)
(* SpecNormalizer: getAllEvents reads one department sheet with at most    *)
(* MaxSheetRows data rows.  The sheet has a Service column and an event    *)
(* column; it has a Debut column, a Date column, or both, or neither, and  *)
(* may have a Fin column.  The error sheet is empty or holds one data      *)
(* error of an earlier run.                                                *)
(***************************************************************************)
MaxSheetRows == 2

SheetHeaders == [startCol : BOOLEAN, endCol : BOOLEAN, legacyDateCol : BOOLEAN]

StartCells ==
    {BlankValue, DateValue(rowDate), NumberValue(45901), TextValue("bientot"),
     TextValue("2025-09-01T18:30:00")}

EndCells ==
    {BlankValue, DateValue(NewDate(2025, 8, 2, 9, 30, 0)),
     DateValue(NewDate(2025, 7, 31, 0, 0, 0)), TextValue("plus tard")}

TitleCells == {"", "  ", "Gala"}

SheetRowValues ==
    [start : StartCells, end : EndCells, event : TitleCells, service : {serviceName}]

StaleErrors ==
    {<< >>, logError(<< >>, "DONNEES", departmentName, 2, "Date manquante ou invalide")}

InitNormalizer ==
    /\ InitSystem(<< >>)
    /\ rowDate = NewDate(2025, 8, 1, 0, 0, 0)
    /\ fnCall \in [fn : {"getAllEvents"},
                   args : {a \in [headers : SheetHeaders,
                                  data : UNION {[1..n -> SheetRowValues] :
                                                    n \in 0..MaxSheetRows},
                                  errors : StaleErrors] :
                              \A i \in 1..Len(a.data) :
                                  ~a.headers.endCol => a.data[i].end = BlankValue},
                   done : {FALSE}, result : {<< >>}]

GetAllEvents ==
    /\ fnCall.fn = "getAllEvents"
    /\ ~fnCall.done
    /\ fnCall' = [fnCall EXCEPT
                      !.done = TRUE,
                      !.result = getAllEventsWithErrors(fnCall.args.headers,
                                                        fnCall.args.data,
                                                        fnCall.args.errors)]
    /\ UNCHANGED sysVars

NextNormalizer == GetAllEvents

SpecNormalizer == InitNormalizer /\ [][NextNormalizer]_vars

\* A sheet qualifies when it has a Debut or a Date column.
NormalizerDone ==
    /\ fnCall.fn = "getAllEvents"
    /\ fnCall.done
    /\ fnCall.args.headers.startCol \/ fnCall.args.headers.legacyDateCol

TitlePresent(row) == row.event \notin {"", "  "}

StartMissing(row) == row.start.kind = "blank"

StartValid(row) ==
    \/ row.start.kind \in {"date", "number"}
    \/ row.start.kind = "text" /\ row.start.text = "2025-09-01T18:30:00"

EndUnparseable(row) == row.end.kind = "text" /\ row.end.text = "plus tard"

\* The events and the data errors that the run produced for data row i.
EventsOfRow(i) ==
    {k \in 1..Len(fnCall.result.events) : fnCall.result.events[k].rowIndex = i + 1}

DataErrorsOfRow(i) ==
    {k \in 1..Len(fnCall.result.errors) :
        /\ fnCall.result.errors[k].type = "DONNEES"
        /\ fnCall.result.errors[k].department = departmentName
        /\ fnCall.result.errors[k].row = i + 1}

\* The row outcomes that do not involve the end date.
RowOutcomes(i) ==
    LET row == fnCall.args.data[i]
    IN  /\ (TitlePresent(row) /\ ~StartValid(row))
               => EventsOfRow(i) = {} /\ Cardinality(DataErrorsOfRow(i)) = 1
        /\ (StartValid(row) /\ ~TitlePresent(row))
               => EventsOfRow(i) = {} /\ Cardinality(DataErrorsOfRow(i)) >= 1
        /\ (StartMissing(row) /\ ~TitlePresent(row))
               => EventsOfRow(i) = {} /\ DataErrorsOfRow(i) = {}

\* C16 as stated: for every data row of a qualifying sheet: a title without
\* a valid start date gives no event and exactly one data error for that
\* sheet and row; a valid start date without title gives no event and a data
\* error; no date and no title gives no event and no error; a valid start
\* date, a title and an unparseable end date give one event without end and
\* one data error.
C16_RowOutcomesAsStated ==
    NormalizerDone =>
        \A i \in 1..Len(fnCall.args.data) :
            LET row == fnCall.args.data[i]
            IN  /\ RowOutcomes(i)
                /\ (StartValid(row) /\ TitlePresent(row) /\ EndUnparseable(row))
                       => /\ Cardinality(EventsOfRow(i)) = 1
                          /\ \A k \in EventsOfRow(i) :
                                 fnCall.result.events[k].endDate = NoDate
                          /\ Cardinality(DataErrorsOfRow(i)) = 1

\* C16 amended: as above, except that the unparseable end date gives the
\* data error only in a sheet that is read through its Debut column; in a
\* sheet read through the legacy Date column the Fin column is not read, and
\* the row gives one event without end and no data error.
C16_RowOutcomes ==
    NormalizerDone =>
        \A i \in 1..Len(fnCall.args.data) :
            LET row == fnCall.args.data[i]
            IN  /\ RowOutcomes(i)
                /\ (StartValid(row) /\ TitlePresent(row) /\ EndUnparseable(row))
                       => /\ Cardinality(EventsOfRow(i)) = 1
                          /\ \A k \in EventsOfRow(i) :
                                 fnCall.result.events[k].endDate = NoDate
                          /\ Cardinality(DataErrorsOfRow(i)) =
                                 IF fnCall.args.headers.startCol THEN 1 ELSE 0

\* C16 witness: a sheet with Debut and Fin columns whose first row has a
\* title and no valid date and whose second row has a title, a valid start
\* and an unparseable end, read while the error sheet holds an old data
\* error for row 2: one event, without end, and one data error for each row.
C16_Witness ==
    /\ NormalizerDone
    /\ fnCall.args.headers.startCol
    /\ fnCall.args.errors # << >>
    /\ Len(fnCall.args.data) = 2
    /\ TitlePresent(fnCall.args.data[1]) /\ ~StartValid(fnCall.args.data[1])
    /\ TitlePresent(fnCall.args.data[2]) /\ StartValid(fnCall.args.data[2])
    /\ EndUnparseable(fnCall.args.data[2])
    /\ Len(fnCall.result.events) = 1
    /\ fnCall.result.events[1].endDate = NoDate
    /\ Cardinality(DataErrorsOfRow(1)) = 1
    /\ Cardinality(DataErrorsOfRow(2)) = 1
    /\ Len(fnCall.result.errors) = 2

(***************************************************************************)
(* Month selection.                                                        *)
(***************************************************************************)
\* The months of the events, each once, in the order of their first event
\* (the keys of monthSet in insertion order).
RECURSIVE UniqueMonths(_, _)
UniqueMonths(months, events) ==
    IF events = << >> THEN months
    ELSE LET key == [year |-> getFullYear(Head(events).date),
                     month |-> getMonth(Head(events).date)]
         IN  UniqueMonths(IF key \in Range(months) THEN months
                          ELSE Append(months, key),
                          Tail(events))

\* A comparator of months that looks at the month only.
compareMonths_MonthOnly(a, b) == a.month - b.month

\* The comparator of months.sort: negative when a comes before b.
compareMonths(a, b) ==
    LET aOrder == IF a.month >= 7 THEN a.month - 7 ELSE a.month + 5
        bOrder == IF b.month >= 7 THEN b.month - 7 ELSE b.month + 5
    IN  IF a.year # b.year THEN a.year - b.year ELSE aOrder - bOrder

\* Array.prototype.sort with compareMonths (a stable sort).
RECURSIVE SortMonths(_)
SortMonths(months) ==
    IF Len(months) <= 1 THEN months
    ELSE LET rest == SortMonths(Tail(months))
             m == Head(months)
             k == Cardinality({i \in 1..Len(rest) : compareMonths(rest[i], m) < 0})
         IN  SubSeq(rest, 1, k) \o <<m>> \o SubSeq(rest, k + 1, Len(rest))

getMonthsToRender(filteredEvents, filters, now) ==
    LET yearRange == parseAcademicYear(filters.year, now)
        monthIndex == MonthNameIndex(Lower(filters.timeRange))
    IN  IF monthIndex # -1
        THEN LET calendarMonth == (monthIndex + 7) % 12
                 year == IF calendarMonth >= 7 THEN getFullYear(yearRange.start)
                         ELSE getFullYear(yearRange.end)
             IN  <<[year |-> year, month |-> calendarMonth]>>
        ELSE IF Len(filteredEvents) = 0 THEN << >>
        ELSE SortMonths(UniqueMonths(<< >>, filteredEvents))

(***************************************************************************)
(* SpecMonths: the months to render are determined by generateCalendarGrid *)
(* for the events that getFilteredEvents keeps under the same filters.     *)
(***************************************************************************)
MonthEventLists ==
    {<< >>,
     <<FilterEvent(NewDate(2025, 7, 15, 10, 0, 0), "Musique", "Messe", "oui", TRUE),
       FilterEvent(NewDate(2025, 7, 20, 10, 0, 0), "Sport", "Concert", "oui", TRUE),
       FilterEvent(NewDate(2025, 11, 1, 0, 0, 0), "Musique", "Concert", "oui", TRUE),
       FilterEvent(NewDate(2026, 0, 10, 0, 0, 0), "Sport", "Messe", "oui", TRUE),
       FilterEvent(NewDate(2026, 2, 3, 18, 0, 0), "Musique", "Messe", "oui", TRUE),
       FilterEvent(NewDate(2026, 6, 30, 0, 0, 0), "Musique", "Concert", "oui", TRUE)>>,
     <<FilterEvent(NewDate(2025, 6, 1, 0, 0, 0), "Musique", "Messe", "oui", TRUE),
       FilterEvent(NewDate(2025, 8, 14, 0, 0, 0), "Sport", "Messe", "oui", TRUE),
       FilterEvent(NewDate(2025, 8, 21, 0, 0, 0), "Musique", "Concert", "oui", TRUE),
       FilterEvent(NewDate(2026, 8, 5, 0, 0, 0), "Musique", "Messe", "oui", TRUE)>>,
     <<FilterEvent(NewDate(2025, 2, 9, 0, 0, 0), "Musique", "Messe", "oui", TRUE),
       FilterEvent(NewDate(2025, 9, 4, 0, 0, 0), "Musique", "Concert", "oui", TRUE),
       FilterEvent(NewDate(2026, 1, 7, 0, 0, 0), "Sport", "Messe", "oui", TRUE)>>}

MonthFilterSettings ==
    [year : {"2024-2025", "2025-2026", "Tous"},
     timeRange : {"Tout", "Actuel + A venir", "septembre", "Septembre", "mars",
                  "trimestre"},
     department : {"Tous", "Musique"},
     surCalendrierExcel : {"Tous", "Oui"},
     surSiteCCFHK : {"Tous"},
     search : {""}]

InitMonths ==
    /\ InitSystem(<< >>)
    /\ fnCall \in [fn : {"getMonthsToRender"},
                   args : [allEvents : MonthEventLists, filters : MonthFilterSettings,
                           now : Nows],
                   done : {FALSE}, result : {<< >>}]

GetMonthsToRender ==
    /\ fnCall.fn = "getMonthsToRender"
    /\ ~fnCall.done
    /\ LET in == fnCall.args
           filteredEvents == getFilteredEvents(in.allEvents, in.filters, in.now)
       IN  fnCall' = [fnCall EXCEPT
                          !.done = TRUE,
                          !.result = [filteredEvents |-> filteredEvents,
                                      months |-> getMonthsToRender(filteredEvents,
                                                                   in.filters, in.now)]]
    /\ UNCHANGED sysVars

NextMonths == GetMonthsToRender

SpecMonths == InitMonths /\ [][NextMonths]_vars

MonthsDone == fnCall.fn = "getMonthsToRender" /\ fnCall.done

\* The calendar month that a time-range value names, or -1.
NamedMonth(timeRange) ==
    CASE timeRange \in {"septembre", "Septembre"} -> 8
      [] timeRange = "mars" -> 2
      [] OTHER -> -1

\* C21: when the time range names a month, the months to render are that
\* one month, of the year that puts it inside the academic-year window,
\* whether or not an event falls in it; otherwise they are the distinct
\* (year, month) pairs of the filtered events, each once, in chronological
\* order, which inside an academic year is August first and July last; and
\* there is no month when the filtered set is empty.
C21_MonthSelection ==
    MonthsDone =>
        LET filters == fnCall.args.filters
            months == fnCall.result.months
            filteredEvents == fnCall.result.filteredEvents
            window == parseAcademicYear(filters.year, fnCall.args.now)
            named == NamedMonth(filters.timeRange)
            pairs == {[year |-> getFullYear(filteredEvents[i].date),
                       month |-> getMonth(filteredEvents[i].date)] :
                          i \in 1..Len(filteredEvents)}
        IN  IF named # -1
            THEN /\ Len(months) = 1
                 /\ months[1].month = named
                 /\ window.start <= NewDate(months[1].year, named, 1, 0, 0, 0)
                 /\ NewDate(months[1].year, named, 1, 0, 0, 0) <= window.end
            ELSE /\ Range(months) = pairs
                 /\ Len(months) = Cardinality(pairs)
                 /\ \A i, j \in 1..Len(months) :
                        i < j => months[i].year * 12 + months[i].month
                                   < months[j].year * 12 + months[j].month
                 /\ (filteredEvents = << >>) => (months = << >>)

\* C21 witness: the events of August (two), December, January, March and July
\* of 2025-2026 give these five months in this order.
C21_Witness ==
    /\ MonthsDone
    /\ fnCall.args.filters.timeRange = "Tout"
    /\ Len(fnCall.result.filteredEvents) = 6
    /\ fnCall.result.months =
           <<[year |-> 2025, month |-> 7], [year |-> 2025, month |-> 11],
             [year |-> 2026, month |-> 0], [year |-> 2026, month |-> 2],
             [year |-> 2026, month |-> 6]>>

(***************************************************************************)
(* Events of a day.                                                        *)
(***************************************************************************)
groupEventsByDay(events) ==
    LET keys == {formatDateKey(events[i].date) : i \in 1..Len(events)}
    IN  [key \in keys |->
            SelectSeq(events, LAMBDA event : formatDateKey(event.date) = key)]

(***************************************************************************)
(* SpecDayCell: the cell of a day of September 2025 is formatted as in     *)
(* generateMonthGrid, for a sorted list of events of which at most         *)
(* MaxDayEvents fall on that day.                                          *)
(***************************************************************************)
MaxDayEvents == 10

\* The days of September 2025 that receive the events.
CellDays == {1, 14, 15, 30}

\* The k-th event of the day, at hour 7 + k.
DayEvent(day, k, withTime) ==
    [date |-> NewDate(2025, 8, day, 7 + k, 0, 0),
     startDate |-> NewDate(2025, 8, day, 7 + k, 0, 0),
     endDate |-> NoDate,
     hasTime |-> withTime,
     service |-> IF k % 2 = 0 THEN serviceName ELSE "",
     event |-> "Gala " \o ToString(k),
     department |-> sortedDepartments[(k % 4) + 1],
     surSiteCCFHK |-> TRUE,
     surCalendrierExcel |-> k % 3 # 0,
     surCalendrierExcelRaw |-> IF k % 3 # 0 THEN "oui" ELSE ""]

\* An event of 31 August and an event of 1 October 2025.
EventBefore ==
    [DayEvent(1, 1, FALSE) EXCEPT !.date = NewDate(2025, 7, 31, 9, 0, 0),
                                  !.startDate = NewDate(2025, 7, 31, 9, 0, 0)]

EventAfter ==
    [DayEvent(1, 1, FALSE) EXCEPT !.date = NewDate(2025, 9, 1, 9, 0, 0),
                                  !.startDate = NewDate(2025, 9, 1, 9, 0, 0)]

InitDayCell ==
    /\ InitSystem(<< >>)
    /\ fnCall \in [fn : {"formatDayCell"},
                   args : [day : CellDays, n : 0..MaxDayEvents, withTime : BOOLEAN,
                           others : BOOLEAN, yearFilter : YearFilters],
                   done : {FALSE}, result : {<< >>}]

\* The filtered events of the call, sorted by start.
DayCellEvents(in) ==
    (IF in.others THEN <<EventBefore>> ELSE << >>)
      \o [k \in 1..in.n |-> DayEvent(in.day, k, in.withTime)]
      \o (IF in.others THEN <<EventAfter>> ELSE << >>)

FormatDayCells ==
    /\ fnCall.fn = "formatDayCell"
    /\ ~fnCall.done
    /\ LET in == fnCall.args
           eventsByDay == groupEventsByDay(DayCellEvents(in))
           dateKey == formatDateKey(NewDate(2025, 8, in.day, 0, 0, 0))
           dayEvents == IF dateKey \in DOMAIN eventsByDay
                        THEN eventsByDay[dateKey] ELSE << >>
       IN  fnCall' = [fnCall EXCEPT
                          !.done = TRUE,
                          !.result = formatDayCell(in.day, dayEvents, FALSE,
                                                   buildEmojiMap, 2025, 8,
                                                   in.yearFilter)]
    /\ UNCHANGED sysVars

NextDayCell == FormatDayCells

SpecDayCell == InitDayCell /\ [][NextDayCell]_vars

DayCellDone == fnCall.fn = "formatDayCell" /\ fnCall.done

\* The number of lines of a cell above its event lines: the day number and
\* the holiday label.
LinesAbove(cell) ==
    IF cell.publicHoliday # NoHoliday \/ cell.schoolHoliday # NoHoliday THEN 2 ELSE 1

\* C22: the cell of a day with n events shows a line for each of the first
\* min(n, 8) events, in the order of the sorted events, then a line
\* "+ (n - 8) autres..." if and only if n > 8, and its events list holds all
\* n events.
C22_PerDayCap ==
    DayCellDone =>
        LET in == fnCall.args
            cell == fnCall.result
            n == in.n
            shown == IF n < 8 THEN n ELSE 8
            above == LinesAbove(cell)
        IN  /\ cell.events = [k \in 1..n |-> DayEvent(in.day, k, in.withTime)]
            /\ Len(cell.display) = above + shown + (IF n > 8 THEN 1 ELSE 0)
            /\ \A k \in 1..shown :
                   cell.display[above + k] =
                       EventLine(DayEvent(in.day, k, in.withTime), buildEmojiMap)
            /\ n > 8 => cell.display[Len(cell.display)]
                            = "+ " \o ToString(n - 8) \o " autres..."

\* C22 witness: a day with 10 events shows 8 of them and "+ 2 autres...",
\* and its events list holds the 10.
C22_Witness ==
    /\ DayCellDone
    /\ fnCall.args.n = 10
    /\ fnCall.args.others
    /\ Len(fnCall.result.events) = 10
    /\ Len(fnCall.result.display) = LinesAbove(fnCall.result) + 9
    /\ fnCall.result.display[Len(fnCall.result.display)] = "+ 2 autres..."

(***************************************************************************)
(* External representation.  createCalendarCall is the call that           *)
(* createCalendarEvent makes on the calendar: createEvent for a timed      *)
(* event, createAllDayEvent with or without an end date for an all-day     *)
(* event.                                                                  *)
(***************************************************************************)
defaultEventDurationHours == 1

\* date.setDate(date.getDate() + 1)
AddOneDay(date) ==
    NewDate(getFullYear(date), getMonth(date), getDate(date) + 1,
            getHours(date), getMinutes(date), getSeconds(date))

\* A call that passes the end date of an all-day event as it is.
createCalendarCall_InclusiveEnd(event) ==
    [method |-> IF event.hasTime THEN "createEvent" ELSE "createAllDayEvent",
     title |-> event.event,
     start |-> event.startDate,
     end |-> IF event.hasTime /\ event.endDate = NoDate
             THEN event.startDate + defaultEventDurationHours * 60 * 60
             ELSE event.endDate,
     description |-> "[[[" \o event.department \o "]]]"]

createCalendarCall(event) ==
    LET title == IF event.service # "" THEN event.service \o " | " \o event.event
                 ELSE event.event
        description == "[[[" \o event.department \o "]]]"
    IN  IF event.hasTime
        THEN LET endTime == IF event.endDate # NoDate THEN event.endDate
                            ELSE event.startDate
                                   + defaultEventDurationHours * 60 * 60
             IN  [method |-> "createEvent", title |-> title,
                  start |-> event.startDate, end |-> endTime,
                  description |-> description]
        ELSE IF event.endDate # NoDate
        THEN [method |-> "createAllDayEvent", title |-> title,
              start |-> event.startDate, end |-> AddOneDay(event.endDate),
              description |-> description]
        ELSE [method |-> "createAllDayEvent", title |-> title,
              start |-> event.startDate, end |-> NoDate,
              description |-> description]

(***************************************************************************)
(* SpecCreate: createCalendarEvent is called for an event as the           *)
(* normalizer produces it: hasTime is true when the start or the end has a *)
(* time of day.                                                            *)
(***************************************************************************)
CreatedStarts ==
    {NewDate(2025, 8, 1, 0, 0, 0), NewDate(2025, 8, 1, 14, 0, 0),
     NewDate(2025, 11, 31, 0, 0, 0), NewDate(2025, 11, 31, 23, 30, 0),
     NewDate(2026, 1, 28, 0, 0, 0)}

CreatedEnds ==
    {NoDate, NewDate(2025, 8, 1, 16, 0, 0), NewDate(2025, 8, 3, 0, 0, 0),
     NewDate(2025, 11, 31, 0, 0, 0), NewDate(2026, 0, 1, 12, 0, 0),
     NewDate(2026, 1, 28, 0, 0, 0), NewDate(2026, 2, 1, 0, 0, 0)}

HasTimeOfDay(date) ==
    date # NoDate /\ hasTimeComponent(DateValue(date))

InitCreate ==
    /\ InitSystem(<< >>)
    /\ fnCall \in [fn : {"createCalendarEvent"},
                   args : [startDate : CreatedStarts, endDate : CreatedEnds,
                           service : {"", serviceName}, event : Titles,
                           department : {departmentName}],
                   done : {FALSE}, result : {<< >>}]

\* The event of the call.
CreatedEvent ==
    [startDate |-> fnCall.args.startDate,
     endDate |-> fnCall.args.endDate,
     hasTime |-> HasTimeOfDay(fnCall.args.startDate)
                   \/ HasTimeOfDay(fnCall.args.endDate),
     service |-> fnCall.args.service,
     event |-> fnCall.args.event,
     department |-> fnCall.args.department]

CreateCalendarEvent ==
    /\ fnCall.fn = "createCalendarEvent"
    /\ ~fnCall.done
    /\ fnCall' = [fnCall EXCEPT !.done = TRUE,
                                !.result = createCalendarCall(CreatedEvent)]
    /\ UNCHANGED sysVars

NextCreate == CreateCalendarEvent

SpecCreate == InitCreate /\ [][NextCreate]_vars

CreateDone == fnCall.fn = "createCalendarEvent" /\ fnCall.done

\* C23: an event with a time is created as a timed event from its start to
\* its end, or to its start plus one hour when it has no end; an event
\* without time is created as an all-day event that starts on its start and
\* ends on the day after its end (exclusive end), or as an all-day event of
\* the single day of its start when it has no end.
C23_ExternalRepresentation ==
    CreateDone =>
        LET event == CreatedEvent
            made == fnCall.result
        IN  /\ made.start = event.startDate
            /\ IF event.hasTime
               THEN /\ made.method = "createEvent"
                    /\ made.end = IF event.endDate # NoDate THEN event.endDate
                                  ELSE event.startDate + 3600
               ELSE /\ made.method = "createAllDayEvent"
                    /\ made.end = IF event.endDate # NoDate
                                  THEN event.endDate + 86400 ELSE NoDate

\* C23 witness: the all-day event from 31 December 2025 to 28 February 2026
\* is created with the end 1 March 2026.
C23_Witness ==
    /\ CreateDone
    /\ ~CreatedEvent.hasTime
    /\ fnCall.args.startDate = NewDate(2025, 11, 31, 0, 0, 0)
    /\ fnCall.args.endDate = NewDate(2026, 1, 28, 0, 0, 0)
    /\ fnCall.result.method = "createAllDayEvent"
    /\ fnCall.result.end = NewDate(2026, 2, 1, 0, 0, 0)

\* C25: every event that getAllEvents produces has end >= start whenever its
\* end is present.
C25_EndNotBeforeStart ==
    NormalizerDone =>
        \A k \in 1..Len(fnCall.result.events) :
            LET event == fnCall.result.events[k]
            IN  event.endDate # NoDate => event.endDate >= event.startDate

(***************************************************************************)
(* The department list and its cache.  cachedDepartmentNames is a global   *)
(* of the script: the line that declares it runs whenever the script is    *)
(* loaded, which Apps Script does at the start of every invocation (menu,  *)
(* simple or installable trigger); invocations never overlap.  The cache   *)
(* is written << >> for null and <<names>> for a stored list; the list is  *)
(* a set, as the handlers only ask whether a name is in it.  Accented      *)
(* letters of the headers are written without their accent.                *)
(***************************************************************************)
NoCache == << >>

\* let cachedDepartmentNames = null, run at each load of the script.
loadScript_Kept(globals) == globals

loadScript(globals) == NoCache

clearDepartmentCache(cache) == NoCache

normalizeForComparison(str) ==
    CASE str = "EVENEMENT" -> "evenement"
      [] str = "Evenement" -> "evenement"
      [] str = "Service" -> "service"
      [] str = "Date" -> "date"
      [] str = "Debut" -> "debut"
      [] OTHER -> str

isEventColumn(header) == normalizeForComparison(header) = "evenement"

\* The scan of getDepartmentNames: workbook maps the name of every sheet
\* that is not a system sheet to the set of its trimmed headers.
ScanDepartments(workbook) ==
    {name \in DOMAIN workbook :
        LET headers == workbook[name]
            hasDateOrDebut == "Date" \in headers \/ "Debut" \in headers
            hasService == "Service" \in headers
            hasEvent == \E h \in headers : isEventColumn(h)
        IN  hasDateOrDebut /\ hasService /\ hasEvent}

getDepartmentNames(cache, workbook, forceRefresh) ==
    IF cache # NoCache /\ ~forceRefresh
    THEN [departments |-> cache[1], cache |-> cache]
    ELSE LET departments == ScanDepartments(workbook)
         IN  [departments |-> departments, cache |-> <<departments>>]

(***************************************************************************)
(* SpecCache: a workbook of two sheets whose header rows the user edits,   *)
(* and the invocations of the script.  fnCall.args is the workbook;        *)
(* fnCall.result holds the global cachedDepartmentNames as the last        *)
(* invocation left it, and the history of that invocation: its entry       *)
(* point, whether it called clearDepartmentCache, the lists on which it    *)
(* decided (a set of lists), whether it went on to render and schedule,    *)
(* and the cache the invocation before it had left.                        *)
(***************************************************************************)
CacheSheets == {"Musique", "Sport"}

HeaderRows ==
    {{"Debut", "Service", "Evenement"}, {"Date", "Service", "EVENEMENT"},
     {"Service", "Evenement"}, {"Debut", "Evenement"}, {}}

Invocation(cache, entry, cleared, decided, acted, previous) ==
    [cachedDepartmentNames |-> cache, entry |-> entry, cleared |-> cleared,
     decided |-> decided, acted |-> acted, previous |-> previous]

InitCache ==
    /\ InitSystem(<< >>)
    /\ fnCall \in [fn : {"getDepartmentNames"}, args : [CacheSheets -> HeaderRows],
                   done : {FALSE},
                   result : {Invocation(NoCache, "none", FALSE, {}, FALSE, NoCache)}]

\* renderCalendar from the cache that the caller left: clears the cache,
\* then buildEmojiMap (generateCalendarGrid, applyFormatting) reads the list.
CachedRender(cache, workbook) ==
    LET cleared == clearDepartmentCache(cache)
        emoji == getDepartmentNames(cleared, workbook, FALSE)
        again == getDepartmentNames(emoji.cache, workbook, FALSE)
    IN  [cache |-> again.cache, decided |-> {emoji.departments, again.departments}]

\* The user edits the header row of a sheet (or a data cell, when the row
\* stays as it is); onEdit runs on that sheet.
CacheOnEdit ==
    \E name \in CacheSheets, headers \in HeaderRows :
        LET workbook == [fnCall.args EXCEPT ![name] = headers]
            left == fnCall.result.cachedDepartmentNames
            globals == loadScript(left)
            read == getDepartmentNames(globals, workbook, FALSE)
            isDepartment == name \in read.departments
            render == CachedRender(read.cache, workbook)
        IN  /\ fnCall.fn = "getDepartmentNames"
            /\ fnCall' = [fnCall EXCEPT
                   !.args = workbook,
                   !.done = TRUE,
                   !.result =
                       IF isDepartment
                       THEN Invocation(render.cache, "onEdit", TRUE,
                                {read.departments} \cup render.decided, TRUE, left)
                       ELSE Invocation(read.cache, "onEdit", FALSE,
                                {read.departments}, FALSE, left)]
            /\ UNCHANGED sysVars

\* renderCalendar as an entry point: the menu, the refresh trigger, the
\* calendar branch of onEdit, resetFilters.
CacheRenderCalendar ==
    LET left == fnCall.result.cachedDepartmentNames
        render == CachedRender(loadScript(left), fnCall.args)
    IN  /\ fnCall.fn = "getDepartmentNames"
        /\ fnCall' = [fnCall EXCEPT
               !.done = TRUE,
               !.result = Invocation(render.cache, "renderCalendar", TRUE,
                              render.decided, TRUE, left)]
        /\ UNCHANGED sysVars

\* installCalendar: setupCalendarSheet reads the list for the dropdown,
\* then renderCalendar.
CacheInstallCalendar ==
    LET left == fnCall.result.cachedDepartmentNames
        setup == getDepartmentNames(loadScript(left), fnCall.args, FALSE)
        render == CachedRender(setup.cache, fnCall.args)
    IN  /\ fnCall.fn = "getDepartmentNames"
        /\ fnCall' = [fnCall EXCEPT
               !.done = TRUE,
               !.result = Invocation(render.cache, "installCalendar", TRUE,
                              {setup.departments} \cup render.decided, TRUE, left)]
        /\ UNCHANGED sysVars

\* syncToGoogleCalendar as an entry point (menu, executeDebouncedSync): it
\* neither clears nor reads the list; getAllEvents scans the sheets itself.
CacheSync ==
    \E entry \in {"syncToGoogleCalendar", "executeDebouncedSync"} :
        LET left == fnCall.result.cachedDepartmentNames
            globals == loadScript(left)
        IN  /\ fnCall.fn = "getDepartmentNames"
            /\ fnCall' = [fnCall EXCEPT
                   !.done = TRUE,
                   !.result = Invocation(globals, entry, FALSE, {}, FALSE, left)]
            /\ UNCHANGED sysVars

NextCache ==
    \/ CacheOnEdit
    \/ CacheRenderCalendar
    \/ CacheInstallCalendar
    \/ CacheSync

SpecCache == InitCache /\ [][NextCache]_vars

InvocationDone == fnCall.fn = "getDepartmentNames" /\ fnCall.done

RenderEntries == {"renderCalendar", "installCalendar"}

SyncEntries == {"syncToGoogleCalendar", "executeDebouncedSync"}

\* Every list the last invocation decided on is the list of the sheets that
\* are departments now.
DecidedOnCurrentList ==
    \A departments \in fnCall.result.decided :
        departments = ScanDepartments(fnCall.args)

RenderRowValues ==
    {row \in SheetRowValues :
        /\ row.start \in {BlankValue, DateValue(rowDate)}
        /\ row.end \in {BlankValue, TextValue("plus tard")}
        /\ row.event \in {"", "Gala"}}

RenderErrorSheets ==
    {<< >>,
     logError(<< >>, "SYNC_GCAL", departmentName, 2, "Echec synchronisation"),
     logError(logError(<< >>, "DONNEES", departmentName, 3, "Date de fin invalide"),
              "SYNC_GCAL", departmentName, 2, "Echec synchronisation"),
     logError(logError(logError(<< >>, "SYNC_GCAL", departmentName, 0,
                                "Echec suppression"),
                       "DONNEES", departmentName, 2, "Date manquante ou invalide"),
              "DONNEES", departmentName, 3, "Nom d'evenement manquant")}

TrackedHash == "Musique|2025-09-01T00:00:00.000Z||Culture|Gala|1"

InitRender ==
    /\ sheetRows = << >>
    /\ calSheetExists \in BOOLEAN
    /\ rendered = << >>
    /\ errorSheet \in RenderErrorSheets
    /\ \/ tracking = EmptyMap /\ gcal = {}
       \/ /\ tracking = MapSet(EmptyMap, TrackedHash,
                               [gcalEventId |-> 1, department |-> departmentName])
          /\ gcal = {[id |-> 1, hash |-> TrackedHash]}
    /\ triggers \in {<<Trigger("renderCalendar", 0), Trigger("onEdit", 0)>>,
                     scheduleGoogleCalendarSync(
                         <<Trigger("renderCalendar", 0), Trigger("onEdit", 0)>>)}
    /\ pc = "idle"
    /\ lastRun = NoRun
    /\ settled = "no"
    /\ unsynced = FALSE
    /\ sinceEdit = syncDebounceSeconds
    /\ burstRuns = 0
    /\ burstEdits = 0
    /\ fnCall \in [fn : {"renderCalendar"},
                   args : [headers : {[startCol |-> TRUE, endCol |-> TRUE,
                                       legacyDateCol |-> FALSE]},
                           data : UNION {[1..n -> RenderRowValues] :
                                             n \in 0..MaxSheetRows}],
                   done : {FALSE},
                   result : {[renders |-> 0, thrown |-> FALSE]}]

\* renderCalendar: throws when the calendar sheet is missing; otherwise
\* getAllEvents rewrites the data errors and the grid is written.
RenderCalendar ==
    LET read == getAllEventsWithErrors(fnCall.args.headers, fnCall.args.data,
                                       errorSheet)
        renders == IF fnCall.result.renders < 2 THEN fnCall.result.renders + 1
                   ELSE fnCall.result.renders
    IN  /\ fnCall.fn = "renderCalendar"
        /\ IF ~calSheetExists
           THEN /\ fnCall' = [fnCall EXCEPT !.done = TRUE,
                                            !.result = [renders |-> renders,
                                                        thrown |-> TRUE]]
                /\ UNCHANGED <<rendered, errorSheet>>
           ELSE /\ fnCall' = [fnCall EXCEPT !.done = TRUE,
                                            !.result = [renders |-> renders,
                                                        thrown |-> FALSE]]
                /\ rendered' = [i \in 1..Len(read.events) |-> read.events[i].event]
                /\ errorSheet' = read.errors
        /\ UNCHANGED <<sheetRows, calSheetExists, tracking, gcal, triggers, pc,
                       lastRun, settled, unsynced, sinceEdit, burstRuns, burstEdits>>

NextRender == RenderCalendar

SpecRender == InitRender /\ [][NextRender]_vars

RowsOfType(sheet, type) == SelectSeq(sheet, LAMBDA row : row.type = type)

OtherRows(sheet) == SelectSeq(sheet, LAMBDA row : row.type # "DONNEES")

\* C29: a render changes neither the tracking store, nor the external
\* calendar, nor the pending reconciliation task, nor the SYNC_GCAL rows of
\* the error sheet (nor any row that is not a data error); and a render that
\* follows a render of the same sources leaves the number of data errors as
\* it was.
C29_RenderTouchesOnlyDataRows ==
    [][RenderCalendar =>
          /\ tracking' = tracking
          /\ gcal' = gcal
          /\ triggers' = triggers
          /\ RowsOfType(errorSheet', "SYNC_GCAL") = RowsOfType(errorSheet, "SYNC_GCAL")
          /\ OtherRows(errorSheet') = OtherRows(errorSheet)
          /\ (fnCall.result.renders >= 1 /\ ~fnCall.result.thrown) =>
                 Len(RowsOfType(errorSheet', "DONNEES"))
                     = Len(RowsOfType(errorSheet, "DONNEES"))]_vars

\* C29 witness: the third render of a sheet with two rows in error, over an
\* error sheet that holds a SYNC_GCAL row, a tracked event and a pending
\* task: two data errors, the SYNC_GCAL row still there.
C29_Witness ==
    /\ fnCall.fn = "renderCalendar"
    /\ fnCall.result.renders = 2
    /\ ~fnCall.result.thrown
    /\ Len(RowsOfType(errorSheet, "DONNEES")) = 2
    /\ Len(RowsOfType(errorSheet, "SYNC_GCAL")) = 1
    /\ DOMAIN tracking # {}
    /\ Pending(triggers) # << >>

(***************************************************************************)
(* import-ical.js: the expansion of a weekly recurrence.  Dates are whole   *)
(* days since the Unix epoch (the rules and the events of the import are    *)
(* at midnight); a Date holds a time value of at most 100,000,000 days on   *)
(* either side of the epoch and is invalid (NaN) beyond, and a comparison   *)
(* with an invalid Date is false.  An RRULE is given as the sequence of its *)
(* KEY=value parts, that is after split(';') and split('=').                *)
(***************************************************************************)
MaxDateDays == 100000000

InvalidDate == MaxDateDays + 1

TimeClip(time) ==
    IF time < 0 - MaxDateDays \/ time > MaxDateDays THEN InvalidDate ELSE time

DateLessEq(a, b) == a # InvalidDate /\ b # InvalidDate /\ a <= b

Undefined == "undefined"

\* parseInt of the texts that the rules carry: <<n>> for the number n, << >>
\* for NaN (also for a key that the rule does not have).
parseIntText(text) ==
    CASE text = "0" -> <<0>>
      [] text = "1" -> <<1>>
      [] text = "2" -> <<2>>
      [] text = "-1" -> <<0 - 1>>
      [] text = "2x" -> <<2>>
      [] OTHER -> << >>

\* parseICALDate of an all-day text YYYYMMDD: null for the empty text, an
\* invalid Date when the digits are not digits.
parseICALDate(dateStr) ==
    CASE dateStr = "20250915" -> NewDate(2025, 8, 15, 0, 0, 0) \div 86400
      [] dateStr = "20250920" -> NewDate(2025, 8, 20, 0, 0, 0) \div 86400
      [] dateStr = "20250825" -> NewDate(2025, 7, 25, 0, 0, 0) \div 86400
      [] dateStr = "someday!" -> InvalidDate
      [] OTHER -> NoDate

\* The object built from the parts: the last part of a key wins.
RuleParts(rrule) ==
    [key \in {"FREQ", "UNTIL", "INTERVAL"} |->
        LET at == {i \in 1..Len(rrule) : rrule[i][1] = key}
        IN  IF at = {} THEN Undefined
            ELSE rrule[CHOOSE i \in at : \A j \in at : j <= i][2]]

NoRecurrence == [freq |-> "none"]

parseRRule(rrule) ==
    LET parts == RuleParts(rrule)
        raw == parseIntText(parts["INTERVAL"])
    IN  IF rrule = << >> THEN NoRecurrence
        ELSE IF parts["FREQ"] # "WEEKLY" THEN NoRecurrence
        ELSE IF parts["UNTIL"] \in {Undefined, ""} THEN NoRecurrence
        ELSE [freq |-> "WEEKLY",
              until |-> parseICALDate(parts["UNTIL"]),
              interval |-> IF raw = << >> \/ raw = <<0>> THEN 1 ELSE raw[1]]

(***************************************************************************)
(* SpecRecurring: expandRecurring, one iteration of its loop per step.     *)
(* fnCall.args is the event and the rule; fnCall.result holds the list     *)
(* built so far and currentStart.  The loop is followed for at most        *)
(* MaxOccurrences iterations.                                              *)
(***************************************************************************)
MaxOccurrences == 5

RecurringStarts ==
    {NewDate(2025, 8, 1, 0, 0, 0) \div 86400, NewDate(2025, 8, 3, 0, 0, 0) \div 86400}

RecurringEvents ==
    {[startDate |-> start, endDate |-> end] :
        start \in RecurringStarts, end \in {NoDate}} \cup
    {[startDate |-> start, endDate |-> start + 1] : start \in RecurringStarts}

RuleTexts ==
    [FREQ : {Undefined, "WEEKLY", "DAILY"},
     UNTIL : {Undefined, "", "20250915", "20250920", "20250825", "someday!"},
     INTERVAL : {Undefined, "0", "1", "2", "-1", "2x", "abc"}]

\* The parts of a rule, in the order FREQ, UNTIL, INTERVAL; a key that is
\* Undefined has no part.
RuleOf(texts) ==
    (IF texts.FREQ = Undefined THEN << >> ELSE <<(<<"FREQ", texts.FREQ>>)>>)
    \o (IF texts.UNTIL = Undefined THEN << >> ELSE <<(<<"UNTIL", texts.UNTIL>>)>>)
    \o (IF texts.INTERVAL = Undefined THEN << >>
        ELSE <<(<<"INTERVAL", texts.INTERVAL>>)>>)

InitRecurring ==
    /\ InitSystem(<< >>)
    /\ fnCall \in [fn : {"expandRecurring"},
                   args : [event : RecurringEvents,
                           rrule : {RuleOf(texts) : texts \in RuleTexts}],
                   done : {FALSE},
                   result : {[pc |-> "start", events |-> << >>,
                              currentStart |-> NoDate]}]

Recurrence == parseRRule(fnCall.args.rrule)

\* The lines before the loop.
ExpandStart ==
    /\ fnCall.fn = "expandRecurring"
    /\ fnCall.result.pc = "start"
    /\ fnCall' =
           IF Recurrence = NoRecurrence
           THEN [fnCall EXCEPT !.done = TRUE,
                               !.result = [pc |-> "returned",
                                           events |-> <<fnCall.args.event>>,
                                           currentStart |-> NoDate]]
           ELSE IF Recurrence.until = NoDate
           THEN [fnCall EXCEPT !.done = TRUE,
                               !.result = [pc |-> "returned",
                                           events |-> <<fnCall.args.event>>,
                                           currentStart |-> NoDate]]
           ELSE [fnCall EXCEPT !.result = [pc |-> "loop", events |-> << >>,
                                           currentStart |-> fnCall.args.event.startDate]]
    /\ UNCHANGED sysVars

\* One iteration of while (currentStart <= recurrence.until).
ExpandLoop ==
    LET event == fnCall.args.event
        currentStart == fnCall.result.currentStart
        duration == IF event.endDate # NoDate THEN event.endDate - event.startDate
                    ELSE 0
        weekMs == 7 * Recurrence.interval
        occurrence == [startDate |-> currentStart,
                       endDate |-> IF event.endDate # NoDate
                                   THEN TimeClip(currentStart + duration)
                                   ELSE NoDate]
    IN  /\ fnCall.fn = "expandRecurring"
        /\ fnCall.result.pc = "loop"
        /\ DateLessEq(currentStart, Recurrence.until)
        /\ Len(fnCall.result.events) < MaxOccurrences
        /\ fnCall' = [fnCall EXCEPT
               !.result = [pc |-> "loop",
                           events |-> Append(fnCall.result.events, occurrence),
                           currentStart |-> TimeClip(currentStart + weekMs)]]
        /\ UNCHANGED sysVars

\* The loop condition is false: return events.
ExpandReturn ==
    /\ fnCall.fn = "expandRecurring"
    /\ fnCall.result.pc = "loop"
    /\ ~DateLessEq(fnCall.result.currentStart, Recurrence.until)
    /\ fnCall' = [fnCall EXCEPT !.done = TRUE, !.result.pc = "returned"]
    /\ UNCHANGED sysVars

NextRecurring ==
    \/ ExpandStart
    \/ ExpandLoop
    \/ ExpandReturn

SpecRecurring == InitRecurring /\ [][NextRecurring]_vars

InLoop == fnCall.fn = "expandRecurring" /\ fnCall.result.pc \in {"loop", "returned"}
              /\ Recurrence # NoRecurrence /\ Recurrence.until # NoDate

\* The weeks from the start of the event to UNTIL, both included.
WeeksToUntil ==
    LET start == fnCall.args.event.startDate
        until == Recurrence.until
    IN  IF DateLessEq(start, until) THEN (until - start) \div 7 + 1 ELSE 0

\* C30: the loop of expandRecurring ends for every rule, also when INTERVAL
\* is zero, negative or not a number: the occurrences are at the start plus
\* k times the interval in weeks, none is after UNTIL, and the loop runs at
\* most once for every week from the start of the event to UNTIL.
C30_ExpansionTerminates ==
    InLoop =>
        /\ \A k \in 1..Len(fnCall.result.events) :
               /\ fnCall.result.events[k].startDate
                      = fnCall.args.event.startDate
                            + (k - 1) * 7 * Recurrence.interval
               /\ DateLessEq(fnCall.result.events[k].startDate, Recurrence.until)
        /\ Len(fnCall.result.events) <= WeeksToUntil

====
